---- MODULE Spec2Model ----
(***************************************************************************)
(* FORGE trust-record engine: atoms, hash chain, Merkle blocks.            *)
(*                                                                         *)
(* JavaScript values are records [ty, n, s, a]: ty is the typeof-like tag, *)
(* n the number, s the text of a string (a sequence of tokens), a the      *)
(* elements of an array.  A token is one character, or the 64 hex          *)
(* characters of one SHA-256 digest kept together with its preimage, so    *)
(* that two digests are equal exactly when their preimages are (SHA-256    *)
(* taken as injective).                                                    *)
(***************************************************************************)
EXTENDS Integers, Sequences, FiniteSets, TLC

(* ------------------------------------------------------------------ *)
(* Bounds                                                               *)
(* ------------------------------------------------------------------ *)
MaxAtoms == 3

MaxBlocks == 2

MaxClock == 1

(* ------------------------------------------------------------------ *)
(* Text: tokens and strings                                             *)
(* ------------------------------------------------------------------ *)
\* one character of a string
Ch(c) == [k |-> "c", c |-> c, s |-> <<>>]

\* a string literal given character by character
Lit(t) == [i \in 1..Len(t) |-> Ch(t[i])]

\* createHash("sha256").update(text).digest("hex"): the digest's hex text
Sha256Hex(text) == << [k |-> "h", c |-> "", s |-> text] >>

Digits == <<"0", "1", "2", "3", "4", "5", "6", "7", "8", "9">>

\* String(n) for an integer n >= 0: its decimal digits
RECURSIVE NumberToString(_)
NumberToString(n) ==
    IF n < 10 THEN << Ch(Digits[n + 1]) >>
    ELSE NumberToString(n \div 10) \o << Ch(Digits[(n % 10) + 1]) >>

(* ------------------------------------------------------------------ *)
(* JavaScript values                                                    *)
(* ------------------------------------------------------------------ *)
JStr(text) == [ty |-> "string", n |-> 0, s |-> text, a |-> <<>>]

JNum(n) == [ty |-> "number", n |-> n, s |-> <<>>, a |-> <<>>]

JNull == [ty |-> "null", n |-> 0, s |-> <<>>, a |-> <<>>]

JUndefined == [ty |-> "undefined", n |-> 0, s |-> <<>>, a |-> <<>>]

JArr(elems) == [ty |-> "array", n |-> 0, s |-> <<>>, a |-> elems]

\* a plain object: its own properties [key, val] in insertion order
JObj(props) == [ty |-> "object", n |-> 0, s |-> <<>>, a |-> props]

\* typeof v === "object": null, arrays and plain objects
TypeofObject(v) == v.ty \in {"null", "array", "object"}

\* texts joined by a separator character: Array.prototype.join on strings
RECURSIVE JoinText(_, _)
JoinText(texts, sep) ==
    IF Len(texts) = 0 THEN <<>>
    ELSE IF Len(texts) = 1 THEN texts[1]
    ELSE texts[1] \o << Ch(sep) >> \o JoinText(Tail(texts), sep)

\* JSON.stringify of a value that is an array element or an array
RECURSIVE JSONStringify(_)
JSONStringify(v) ==
    CASE v.ty = "string" -> << Ch("\"") >> \o v.s \o << Ch("\"") >>
      [] v.ty = "number" -> NumberToString(v.n)
      [] v.ty = "array" ->
            << Ch("[") >>
            \o JoinText([i \in 1..Len(v.a) |-> JSONStringify(v.a[i])], ",")
            \o << Ch("]") >>
      [] OTHER -> Lit(<<"n", "u", "l", "l">>)

\* the characters of property names in the order of their code units
Alphabet == <<"0", "1", "2", "3", "4", "5", "6", "7", "8", "9",
              "a", "b", "c", "k", "s", "t", "x", "y", "z">>

CharRank(tok) == CHOOSE i \in 1..Len(Alphabet) : Alphabet[i] = tok.c

\* a < b for two property names: by code unit, a proper prefix first
RECURSIVE TextLess(_, _)
TextLess(a, b) ==
    IF Len(b) = 0 THEN FALSE
    ELSE IF Len(a) = 0 THEN TRUE
    ELSE IF a[1] = b[1] THEN TextLess(Tail(a), Tail(b))
    ELSE CharRank(a[1]) < CharRank(b[1])

\* Object.keys(v): the property names of an object, the indices of an array
ObjectKeys(v) ==
    IF v.ty = "object" THEN [i \in 1..Len(v.a) |-> v.a[i].key]
    ELSE [i \in 1..Len(v.a) |-> NumberToString(i - 1)]

\* keys.sort(): insertion of the last key into the sorted rest
RECURSIVE SortKeys(_)
SortKeys(keys) ==
    IF Len(keys) <= 1 THEN keys
    ELSE LET rest == SortKeys(SubSeq(keys, 1, Len(keys) - 1))
             k == keys[Len(keys)]
             before == { i \in 1..Len(rest) : ~TextLess(k, rest[i]) }
             n == Cardinality(before)
         IN  SubSeq(rest, 1, n) \o << k >> \o SubSeq(rest, n + 1, Len(rest))

\* the own property of an object with the given name, if any
HasKey(v, key) == \E i \in 1..Len(v.a) : v.a[i].key = key
ValueOf(v, key) == v.a[CHOOSE i \in 1..Len(v.a) : v.a[i].key = key].val

\* "name":
KeyText(key) == << Ch("\"") >> \o key \o << Ch("\""), Ch(":") >>

\* JSON.stringify(v, allow) with an array of names as replacer: at every
\* depth an object keeps only the properties named in allow, in the order of
\* allow; array elements are not filtered
RECURSIVE StringifyAllowed(_, _)
StringifyAllowed(v, allow) ==
    CASE v.ty = "object" ->
            LET kept == SelectSeq(allow, LAMBDA k : HasKey(v, k) /\ ValueOf(v, k).ty # "undefined")
            IN  << Ch("{") >>
                \o JoinText([i \in 1..Len(kept) |->
                                KeyText(kept[i]) \o StringifyAllowed(ValueOf(v, kept[i]), allow)],
                            ",")
                \o << Ch("}") >>
      [] v.ty = "array" ->
            << Ch("[") >>
            \o JoinText([i \in 1..Len(v.a) |-> StringifyAllowed(v.a[i], allow)], ",")
            \o << Ch("]") >>
      [] OTHER -> JSONStringify(v)

\* JSON.stringify(v, Object.keys(v).sort())
StringifySortedKeys(v) == StringifyAllowed(v, SortKeys(ObjectKeys(v)))

\* a serialisation that gives every object the names of its own properties
RECURSIVE StringifyEveryDepth(_)
StringifyEveryDepth(v) ==
    CASE v.ty = "object" ->
            LET kept == SelectSeq(SortKeys(ObjectKeys(v)),
                                  LAMBDA k : ValueOf(v, k).ty # "undefined")
            IN  << Ch("{") >>
                \o JoinText([i \in 1..Len(kept) |->
                                KeyText(kept[i]) \o StringifyEveryDepth(ValueOf(v, kept[i]))],
                            ",")
                \o << Ch("}") >>
      [] v.ty = "array" ->
            << Ch("[") >>
            \o JoinText([i \in 1..Len(v.a) |-> StringifyEveryDepth(v.a[i])], ",")
            \o << Ch("]") >>
      [] OTHER -> JSONStringify(v)

\* String(v) for a value that is not an object
ToStringPrimitive(v) ==
    CASE v.ty = "string" -> v.s
      [] v.ty = "number" -> NumberToString(v.n)
      [] v.ty = "undefined" -> Lit(<<"u", "n", "d", "e", "f", "i", "n", "e", "d">>)
      [] OTHER -> Lit(<<"n", "u", "l", "l">>)

(* ------------------------------------------------------------------ *)
(* trust-pixel.js: hash, hashMany                                       *)
(* ------------------------------------------------------------------ *)
\* hash(input): "" for undefined/null, JSON for objects, String otherwise
hash(input) ==
    JStr(Sha256Hex(IF input.ty \in {"undefined", "null"} THEN <<>>
                   ELSE IF TypeofObject(input) THEN StringifySortedKeys(input)
                   ELSE ToStringPrimitive(input)))

\* Object.keys(p) of a part with typeof "object" throws a TypeError on null
hashManyThrows(parts) == \E i \in 1..Len(parts) : parts[i].ty = "null"

\* the text of one part of hashMany
PartText(p) == IF TypeofObject(p) THEN StringifySortedKeys(p) ELSE ToStringPrimitive(p)

\* hashMany(...parts): the parts' texts joined by "|", hashed
hashMany(parts) ==
    hash(JStr(JoinText([i \in 1..Len(parts) |-> PartText(parts[i])], "|")))

\* a + b with a string on the left: string concatenation
Plus(a, b) == JStr(ToStringPrimitive(a) \o ToStringPrimitive(b))

Genesis == JStr(Lit(<<"g", "e", "n", "e", "s", "i", "s">>))

(* ------------------------------------------------------------------ *)
(* trust-atom.js: createAtom                                            *)
(* ------------------------------------------------------------------ *)
\* the parts verifyAtom and createAtom hand to hashMany
ProofParts(who, from, action, to, when, prevArr) ==
    << who, from, action, to, when >> \o prevArr

\* createAtom({who, from, action, to, prev}) with Date.now() = now
createAtom(who, from, action, to, prev, now) ==
    LET prevArr == IF prev.ty = "array" THEN prev.a
                   ELSE IF prev.ty = "undefined" THEN << Genesis >>
                   ELSE << prev >>
        w == hash(who)
        f == hash(from)
        ac == hash(action)
        t == hash(to)
    IN  [who |-> w, from |-> f, action |-> ac, to |-> t,
         when |-> JNum(now), prev |-> JArr(prevArr),
         proof |-> hashMany(ProofParts(w, f, ac, t, JNum(now), prevArr))]

(* ------------------------------------------------------------------ *)
(* trust-atom.js: verifyAtom, verifyChain                               *)
(* ------------------------------------------------------------------ *)
\* ...atom.prev: the elements of an array, the characters of a string
SpreadPrev(prev) ==
    IF prev.ty = "array" THEN prev.a
    ELSE [i \in 1..Len(prev.s) |-> JStr(<< prev.s[i] >>)]

\* ...atom.prev throws a TypeError when prev is not iterable
SpreadThrows(prev) == prev.ty \notin {"array", "string"}

VerifyParts(atom) ==
    ProofParts(atom.who, atom.from, atom.action, atom.to, atom.when,
               SpreadPrev(atom.prev))

\* verifyAtom(atom) throws
verifyAtomThrows(atom) ==
    SpreadThrows(atom.prev) \/ hashManyThrows(VerifyParts(atom))

\* verifyAtom(atom): expected === atom.proof
verifyAtom(atom) == hashMany(VerifyParts(atom)) = atom.proof

\* String(v) for any value: arrays join their elements with ","
ToStringAny(v) ==
    IF v.ty = "array"
    THEN JoinText([i \in 1..Len(v.a) |->
                      IF v.a[i].ty \in {"null", "undefined", "array"} THEN <<>>
                      ELSE ToStringPrimitive(v.a[i])], ",")
    ELSE ToStringPrimitive(v)

IsSubstring(needle, hay) ==
    \E i \in 0..(Len(hay) - Len(needle)) : SubSeq(hay, i + 1, i + Len(needle)) = needle

\* atoms[i].prev.includes(x): SameValueZero membership for an array (a
\* parsed array is never the same object as another), substring for a string
PrevIncludes(prev, x) ==
    IF prev.ty = "array"
    THEN x.ty # "array" /\ \E j \in 1..Len(prev.a) : prev.a[j] = x
    ELSE IsSubstring(ToStringAny(x), prev.s)

DigitValue(tok) == (CHOOSE d \in 1..10 : Digits[d] = tok.c) - 1

IsDigitText(text) ==
    \A i \in 1..Len(text) : text[i].k = "c" /\ \E d \in 1..10 : Digits[d] = text[i].c

RECURSIVE DigitTextValue(_)
DigitTextValue(text) ==
    IF Len(text) = 0 THEN 0
    ELSE 10 * DigitTextValue(SubSeq(text, 1, Len(text) - 1)) + DigitValue(text[Len(text)])

\* ToNumber(v): nan marks NaN
ToNumber(v) ==
    CASE v.ty = "number" -> [nan |-> FALSE, n |-> v.n]
      [] v.ty = "null" -> [nan |-> FALSE, n |-> 0]
      [] v.ty = "string" /\ IsDigitText(v.s) -> [nan |-> FALSE, n |-> DigitTextValue(v.s)]
      [] OTHER -> [nan |-> TRUE, n |-> 0]

\* a < b on two strings of decimal digits: by code unit, a proper prefix first
RECURSIVE DigitTextLess(_, _)
DigitTextLess(a, b) ==
    IF Len(b) = 0 THEN FALSE
    ELSE IF Len(a) = 0 THEN TRUE
    ELSE IF a[1] = b[1] THEN DigitTextLess(Tail(a), Tail(b))
    ELSE DigitValue(a[1]) < DigitValue(b[1])

\* a comparison that also rejects equal timestamps
LessOrEqual(a, b) ==
    IF a.ty = "string" /\ b.ty = "string" /\ IsDigitText(a.s) /\ IsDigitText(b.s)
    THEN a.s = b.s \/ DigitTextLess(a.s, b.s)
    ELSE LET x == ToNumber(a)
             y == ToNumber(b)
         IN  ~x.nan /\ ~y.nan /\ x.n <= y.n

\* a < b: two strings compare as text, everything else as numbers
Less(a, b) ==
    IF a.ty = "string" /\ b.ty = "string" /\ IsDigitText(a.s) /\ IsDigitText(b.s)
    THEN DigitTextLess(a.s, b.s)
    ELSE LET x == ToNumber(a)
             y == ToNumber(b)
         IN  ~x.nan /\ ~y.nan /\ x.n < y.n

NoReason == "undefined"

ChainValid == [thrown |-> FALSE, valid |-> TRUE, broken_at |-> -1, reason |-> NoReason]

ChainBroken(i, why) == [thrown |-> FALSE, valid |-> FALSE, broken_at |-> i, reason |-> why]

\* the call ended in a TypeError instead of returning
ChainThrown == [thrown |-> TRUE, valid |-> FALSE, broken_at |-> -1, reason |-> "TypeError"]

\* a loop that checks links and times but not each atom's own proof
RECURSIVE verifyChainFromNoSelfCheck(_, _)
verifyChainFromNoSelfCheck(atoms, i) ==
    IF i > Len(atoms) THEN ChainValid
    ELSE IF verifyAtomThrows(atoms[i]) THEN ChainThrown
    ELSE IF i > 1 /\ ~PrevIncludes(atoms[i].prev, atoms[i - 1].proof)
         THEN ChainBroken(i - 1, "chain_break")
    ELSE IF i > 1 /\ Less(atoms[i].when, atoms[i - 1].when)
         THEN ChainBroken(i - 1, "time_reversal")
    ELSE verifyChainFromNoSelfCheck(atoms, i + 1)

\* a loop that also wants "genesis" in the prev of the first atom
RECURSIVE verifyChainFromGenesis(_, _)
verifyChainFromGenesis(atoms, i) ==
    IF i > Len(atoms) THEN ChainValid
    ELSE IF verifyAtomThrows(atoms[i]) THEN ChainThrown
    ELSE IF ~verifyAtom(atoms[i]) THEN ChainBroken(i - 1, "proof_mismatch")
    ELSE IF i = 1 /\ ~PrevIncludes(atoms[i].prev, Genesis)
         THEN ChainBroken(i - 1, "chain_break")
    ELSE IF i > 1 /\ ~PrevIncludes(atoms[i].prev, atoms[i - 1].proof)
         THEN ChainBroken(i - 1, "chain_break")
    ELSE IF i > 1 /\ Less(atoms[i].when, atoms[i - 1].when)
         THEN ChainBroken(i - 1, "time_reversal")
    ELSE verifyChainFromGenesis(atoms, i + 1)

\* the for loop of verifyChain from position i (1-based; broken_at is 0-based)
RECURSIVE verifyChainFrom(_, _)
verifyChainFrom(atoms, i) ==
    IF i > Len(atoms) THEN ChainValid
    ELSE IF verifyAtomThrows(atoms[i]) THEN ChainThrown
    ELSE IF ~verifyAtom(atoms[i]) THEN ChainBroken(i - 1, "proof_mismatch")
    ELSE IF i > 1 /\ ~PrevIncludes(atoms[i].prev, atoms[i - 1].proof)
         THEN ChainBroken(i - 1, "chain_break")
    ELSE IF i > 1 /\ Less(atoms[i].when, atoms[i - 1].when)
         THEN ChainBroken(i - 1, "time_reversal")
    ELSE verifyChainFrom(atoms, i + 1)

\* verifyChain(atoms)
verifyChain(atoms) ==
    IF Len(atoms) = 0 THEN ChainValid ELSE verifyChainFrom(atoms, 1)

(* ------------------------------------------------------------------ *)
(* merkle.js                                                            *)
(* ------------------------------------------------------------------ *)
\* a pass that promotes an odd last node as it is, unhashed
NextLayerPromote(current) ==
    [j \in 1..((Len(current) + 1) \div 2) |->
        IF 2 * j <= Len(current)
        THEN hash(Plus(current[2 * j - 1], current[2 * j]))
        ELSE current[2 * j - 1]]

\* one pass of the while loop: adjacent pairs hashed, an odd last node with itself
NextLayer(current) ==
    [j \in 1..((Len(current) + 1) \div 2) |->
        IF 2 * j <= Len(current)
        THEN hash(Plus(current[2 * j - 1], current[2 * j]))
        ELSE hash(Plus(current[2 * j - 1], current[2 * j - 1]))]

\* a loop that makes one pass only
BuildLayersOnce(current) ==
    IF Len(current) <= 1 THEN <<>> ELSE << NextLayer(current) >>

\* the layers pushed by the while loop, until one node remains
RECURSIVE BuildLayers(_)
BuildLayers(current) ==
    IF Len(current) <= 1 THEN <<>>
    ELSE << NextLayer(current) >> \o BuildLayers(NextLayer(current))

\* buildMerkleTree(proofs)
buildMerkleTree(proofs) ==
    IF Len(proofs) = 0
    THEN [root |-> hash(JStr(Lit(<<"e", "m", "p", "t", "y">>))), layers |-> << <<>> >>]
    ELSE IF Len(proofs) = 1
    THEN [root |-> proofs[1], layers |-> << proofs >>]
    ELSE LET layers == << proofs >> \o BuildLayers(proofs)
         IN  [root |-> layers[Len(layers)][1], layers |-> layers]

\* nodes[j] for a 0-based j; undefined outside the array
NodeAt(nodes, j) == IF j >= 0 /\ j < Len(nodes) THEN nodes[j + 1] ELSE JUndefined

\* the for loop of getMerkleProof from layer `layer` (0-based) with index idx
RECURSIVE MerkleProofFrom(_, _, _)
MerkleProofFrom(layers, layer, idx) ==
    IF layer >= Len(layers) - 1 THEN <<>>
    ELSE LET nodes == layers[layer + 1]
             isRight == idx % 2 = 1
             siblingIdx == IF isRight THEN idx - 1 ELSE idx + 1
             step == [hash |-> IF siblingIdx < Len(nodes) THEN NodeAt(nodes, siblingIdx)
                               ELSE NodeAt(nodes, idx),
                      direction |-> IF isRight THEN "left" ELSE "right"]
         IN  << step >> \o MerkleProofFrom(layers, layer + 1, idx \div 2)

\* getMerkleProof(layers, leafIndex)
getMerkleProof(layers, leafIndex) == MerkleProofFrom(layers, 0, leafIndex)

\* the fold of verifyMerkleProof over the steps from position k
RECURSIVE MerkleFold(_, _, _)
MerkleFold(current, proof, k) ==
    IF k > Len(proof) THEN current
    ELSE MerkleFold(IF proof[k].direction = "left"
                    THEN hash(Plus(proof[k].hash, current))
                    ELSE hash(Plus(current, proof[k].hash)),
                    proof, k + 1)

\* a verifier that accepts any leaf when the proof has no step
verifyMerkleProofEmptyOk(leafHash, proof, expectedRoot) ==
    Len(proof) = 0 \/ MerkleFold(leafHash, proof, 1) = expectedRoot

\* verifyMerkleProof(leafHash, proof, expectedRoot)
verifyMerkleProof(leafHash, proof, expectedRoot) ==
    MerkleFold(leafHash, proof, 1) = expectedRoot

\* treeFromAtoms(atoms)
treeFromAtoms(atoms) == buildMerkleTree([i \in 1..Len(atoms) |-> atoms[i].proof])

\* a createBlock that drops its prevBlockHash argument for the default
createBlockUnlinked(atoms, prevBlockHash, t1, t2) ==
    LET tree == treeFromAtoms(atoms)
    IN  [root |-> tree.root,
         layers |-> tree.layers,
         atom_count |-> Len(atoms),
         prev_block |-> Genesis,
         block_hash |-> hash(Plus(Plus(tree.root, Genesis), JNum(t1))),
         created_at |-> t2]

\* createBlock(atoms, prevBlockHash); t1 and t2 are its two reads of Date.now()
createBlock(atoms, prevBlockHash, t1, t2) ==
    LET tree == treeFromAtoms(atoms)
    IN  [root |-> tree.root,
         layers |-> tree.layers,
         atom_count |-> Len(atoms),
         prev_block |-> prevBlockHash,
         block_hash |-> hash(Plus(Plus(tree.root, prevBlockHash), JNum(t1))),
         created_at |-> t2]

(* ------------------------------------------------------------------ *)
(* chain.js: TrustChain                                                 *)
(* ------------------------------------------------------------------ *)
\* TrustChain: this.atoms, this.blocks
VARIABLES atoms, blocks

\* verifyChain on a given atom sequence: the sequence, the result of the last
\* call, the result before an action field was replaced, the replaced index
VARIABLES vatoms, vres, vbase, vmut

\* createAtom, one field changed, verifyAtom / verifyChain: the atoms, the
\* change made, the result of the last verifyAtom and verifyChain calls
VARIABLES tatoms, tmut, tva, tvc

\* the Merkle functions on given leaf lists: the lists, their trees, the
\* proof asked for and the result of verifying a leaf against it
VARIABLES leaves, tree, mproof, mok, leavesB, treeB

chainVars == << atoms, blocks >>

verifyVars == << vatoms, vres, vbase, vmut >>

tamperVars == << tatoms, tmut, tva, tvc >>

merkleVars == << leaves, tree, mproof, mok, leavesB, treeB >>

\* the store file of the command line and of the MCP server: data.atoms, data.blocks
VARIABLES storeAtoms, storeBlocks

storeVars == << storeAtoms, storeBlocks >>

\* findDivergence on two parties' chains: their atoms and the result of the last call
VARIABLES chainA, chainB, dres

divergeVars == << chainA, chainB, dres >>

\* witness.js: the receipt files by Merkle root, the saveWitness calls made so
\* far, the requests sent to calendars, the submitToOTS call in progress
VARIABLES witnesses, saveLog, sent, ots

witnessVars == << witnesses, saveLog, sent, ots >>

\* the variables of the store, of the divergence detector and of the witness module
\* the result of the last checkOTSUpgrade call whose caller looked at it
VARIABLES ures

upgradeVars == << ures >>

\* the Store of the second half of server.js: chain.json, actions.json, the
\* Store object of the process and what its last call returned
VARIABLES chainFile, actionsFile, store, sret

apiVars == << chainFile, actionsFile, store, sret >>

\* the witness file of one root, the position of a process inside a
\* writeFileSync, and what another process read last
VARIABLES wfile, wpos, seen

fileVars == << wfile, wpos, seen >>

\* the last command of the command line and the last call of an MCP tool
VARIABLES cli, mcp

toolVars == << cli, mcp >>

\* the objects given to hash and the digests it returned
VARIABLES hobj, hres

hashVars == << hobj, hres >>

\* the Store object of a second process on the same files
VARIABLES store2

multiVars == << store2 >>

\* the atoms given to the signed verifier, its requireSignature option, the
\* keys the machine holds, and the verifier's result
VARIABLES satoms, sreq, skeys, sres

signedVars == << satoms, sreq, skeys, sres >>

\* the variables of the last sections
lastVars == << hashVars, multiVars, signedVars >>

\* the variables of the sections after the Store
pastApiVars == << fileVars, toolVars, lastVars >>

\* the variables of the sections after checkOTSUpgrade
pastUpgradeVars == << apiVars, pastApiVars >>

\* the variables of the sections after the witness module
moreVars == << upgradeVars, pastUpgradeVars >>

laterVars == << storeVars, divergeVars, witnessVars, moreVars >>

vars == << atoms, blocks, vatoms, vres, vbase, vmut, tatoms, tmut, tva, tvc,
           leaves, tree, mproof, mok, leavesB, treeB, storeAtoms, storeBlocks,
           chainA, chainB, dres, witnesses, saveLog, sent, ots, ures,
           chainFile, actionsFile, store, sret, wfile, wpos, seen, cli, mcp,
           hobj, hres, store2, satoms, sreq, skeys, sres >>

\* new TrustChain(identity): the identity string of the chain under study
Identity == JStr(Lit(<<"u">>))

\* the operations handed to record: {action, from, to}
Operations ==
    { [action |-> JStr(Lit(<<"a">>)), from |-> JStr(Lit(<<"0">>)), to |-> JStr(Lit(<<"1">>))] }

\* the values Date.now() may return: the wall clock is not monotonic
Clock == 0..MaxClock

\* constructor
ChainInit == atoms = <<>> /\ blocks = <<>>

\* a sealer that reads the start of the last block's range instead of its end
lastSealedIndexStart(bs) == IF Len(bs) = 0 THEN -1 ELSE bs[Len(bs)].atom_range[1]

\* _lastSealedIndex()
lastSealedIndex(bs) == IF Len(bs) = 0 THEN -1 ELSE bs[Len(bs)].atom_range[2]

\* record({action, from, to}) with Date.now() = now
record(op, now) ==
    /\ Len(atoms) < MaxAtoms
    /\ LET prev == IF Len(atoms) > 0 THEN atoms[Len(atoms)].proof ELSE Genesis
       IN  atoms' = Append(atoms, createAtom(Identity, op.from, op.action, op.to, prev, now))
    /\ UNCHANGED << blocks, verifyVars, tamperVars, merkleVars, laterVars >>

\* block.atom_range = [startIdx, this.atoms.length - 1]
withRange(block, atom_range) ==
    [root |-> block.root, layers |-> block.layers, atom_count |-> block.atom_count,
     prev_block |-> block.prev_block, block_hash |-> block.block_hash,
     created_at |-> block.created_at,
     atom_range |-> atom_range]

\* the block seal() pushes: the atoms after the last sealed index
sealedBlock(as, bs, t1, t2) ==
    withRange(createBlock(SubSeq(as, lastSealedIndex(bs) + 2, Len(as)),
                          IF Len(bs) > 0 THEN bs[Len(bs)].block_hash ELSE Genesis,
                          t1, t2),
              << lastSealedIndex(bs) + 1, Len(as) - 1 >>)

\* a seal that returns null on an empty chain only
sealReturnsNullOnEmpty(as, bs) == Len(as) = 0

\* seal() returns null: no atoms, or none after the last sealed index
sealReturnsNull(as, bs) == Len(as) = 0 \/ lastSealedIndex(bs) + 1 >= Len(as)

\* seal(); t1 and t2 are createBlock's two reads of Date.now()
seal(t1, t2) ==
    /\ Len(blocks) < MaxBlocks
    /\ blocks' = IF sealReturnsNull(atoms, blocks) THEN blocks
                 ELSE Append(blocks, sealedBlock(atoms, blocks, t1, t2))
    /\ UNCHANGED << atoms, verifyVars, tamperVars, merkleVars, laterVars >>

\* the result of proveAtom: null, or {atom, merkle_proof, merkle_root, block_hash}
NullProof ==
    [isNull |-> TRUE, atom |-> JUndefined, merkle_proof |-> <<>>,
     merkle_root |-> JUndefined, block_hash |-> JUndefined]

\* the blocks (1-based positions) whose atom_range holds globalIndex
coveringBlocks(bs, globalIndex) ==
    { k \in 1..Len(bs) :
        globalIndex >= bs[k].atom_range[1] /\ globalIndex <= bs[k].atom_range[2] }

\* a lookup that takes the end of atom_range as exclusive
proveAtomExclusiveEnd(as, bs, globalIndex) ==
    LET found == { k \in 1..Len(bs) :
                     globalIndex >= bs[k].atom_range[1] /\ globalIndex < bs[k].atom_range[2] }
    IN  IF found = {} THEN NullProof
        ELSE LET block == bs[CHOOSE k \in found : \A j \in found : k <= j]
                 localIndex == globalIndex - block.atom_range[1]
             IN  [isNull |-> FALSE,
                  atom |-> as[globalIndex + 1],
                  merkle_proof |-> getMerkleProof(block.layers, localIndex),
                  merkle_root |-> block.root,
                  block_hash |-> block.block_hash]

\* proveAtom(globalIndex): blocks.find takes the first block whose range holds the index
proveAtom(as, bs, globalIndex) ==
    LET found == coveringBlocks(bs, globalIndex)
    IN  IF found = {} THEN NullProof
        ELSE LET block == bs[CHOOSE k \in found : \A j \in found : k <= j]
                 localIndex == globalIndex - block.atom_range[1]
             IN  [isNull |-> FALSE,
                  atom |-> as[globalIndex + 1],
                  merkle_proof |-> getMerkleProof(block.layers, localIndex),
                  merkle_root |-> block.root,
                  block_hash |-> block.block_hash]

\* verifyProof(atomProofHash, merkleProof, expectedRoot)
verifyProof(atomProofHash, merkleProof, expectedRoot) ==
    verifyMerkleProof(atomProofHash, merkleProof, expectedRoot)

\* the indices proveAtom is asked about: negative, inside and past the end
ProveIndices == -1..(MaxAtoms + 1)

(* ------------------------------------------------------------------ *)
(* verifyChain applied to given atom sequences                          *)
(* ------------------------------------------------------------------ *)
MaxChain == 3

\* no call made yet
NotRun == [thrown |-> FALSE, valid |-> FALSE, broken_at |-> -2, reason |-> "not_run"]

VerifyInit == vatoms = <<>> /\ vres = NotRun /\ vbase = NotRun /\ vmut = -1

ActionA == hash(JStr(Lit(<<"a">>)))

\* the hashes an action field is replaced by
OtherActions == { hash(JStr(Lit(<<"b">>))), hash(JStr(Lit(<<"c">>))) }

\* a proof that is the hash of something else
WrongProof == hash(JStr(Lit(<<"x">>)))

\* the when values of the given atoms
InputWhens == { JNum(0), JNum(1) }

\* the prev arrays of the given atoms: genesis or a foreign hash first, then
\* the predecessor's proof, alone or among several, or a link to something else
InputPrevs(prefix) ==
    IF Len(prefix) = 0 THEN { << Genesis >>, << WrongProof >> }
    ELSE { << prefix[Len(prefix)].proof >>,
           << Genesis, prefix[Len(prefix)].proof >>,
           << Genesis >> }

\* atom records of the data model: a proof that fits the fields, or one that does not
InputAtoms(prefix) ==
    { [who |-> hash(Identity), from |-> hash(JStr(Lit(<<"0">>))), action |-> ActionA,
       to |-> hash(JStr(Lit(<<"1">>))), when |-> w, prev |-> JArr(p),
       proof |-> IF good
                 THEN hashMany(ProofParts(hash(Identity), hash(JStr(Lit(<<"0">>))), ActionA,
                                          hash(JStr(Lit(<<"1">>))), w, p))
                 ELSE WrongProof] :
      w \in InputWhens, p \in InputPrevs(prefix), good \in BOOLEAN }

\* the caller extends the sequence it will verify
pushAtom(a) ==
    /\ Len(vatoms) < MaxChain
    /\ vmut = -1
    /\ vatoms' = Append(vatoms, a)
    /\ vres' = NotRun
    /\ UNCHANGED << vbase, vmut, chainVars, tamperVars, merkleVars, laterVars >>

\* result = verifyChain(atoms)
runVerifyChain ==
    /\ vres = NotRun
    /\ vres' = verifyChain(vatoms)
    /\ UNCHANGED << vatoms, vbase, vmut, chainVars, tamperVars, merkleVars, laterVars >>

\* atoms[k].action = h on a verified sequence, h a different hash (test.js:158)
replaceAction(k, h) ==
    /\ vmut = -1
    /\ vres # NotRun
    /\ k \in 0..(Len(vatoms) - 1)
    /\ h # vatoms[k + 1].action
    /\ vatoms' = [vatoms EXCEPT ![k + 1].action = h]
    /\ vbase' = vres
    /\ vres' = NotRun
    /\ vmut' = k
    /\ UNCHANGED << chainVars, tamperVars, merkleVars, laterVars >>

(* ------------------------------------------------------------------ *)
(* createAtom, a changed field, verifyAtom and verifyChain              *)
(* ------------------------------------------------------------------ *)
MaxTamper == 2

NoChange == [idx |-> -1, field |-> "none"]

NoAtomResult == [idx |-> -1, res |-> "none"]

TamperInit == tatoms = <<>> /\ tmut = NoChange /\ tva = NoAtomResult /\ tvc = NotRun

\* the prev argument of createAtom: absent, the last proof, or two parents
CreatePrevs(prefix) ==
    IF Len(prefix) = 0 THEN { JUndefined, JArr(<< Genesis, WrongProof >>) }
    ELSE { prefix[Len(prefix)].proof, JArr(<< prefix[Len(prefix)].proof, WrongProof >>) }

\* atom = createAtom({who, from, action, to, prev}) with Date.now() = now
createAtomCall(prev, now) ==
    /\ Len(tatoms) < MaxTamper
    /\ tmut = NoChange
    /\ tatoms' = Append(tatoms, createAtom(Identity, JStr(Lit(<<"0">>)), JStr(Lit(<<"a">>)),
                                           JStr(Lit(<<"1">>)), prev, now))
    /\ tva' = NoAtomResult
    /\ tvc' = NotRun
    /\ UNCHANGED << tmut, chainVars, verifyVars, merkleVars, laterVars >>

AtomFields == { "who", "from", "action", "to", "when", "prev" }

\* the entries of a prev array written as one entry, "|" between them
MergedPrev(prev) ==
    JArr(<< JStr(JoinText([i \in 1..Len(prev.a) |-> PartText(prev.a[i])], "|")) >>)

\* the values a field is changed to: another hash, a value of another type, a
\* missing (undefined) or null field, the same digits as a string, the same
\* entries merged or split
ChangedValues(atom, field) ==
    { JNull, JUndefined, WrongProof, Genesis, JNum(0), JNum(1),
      JArr(<<>>), JArr(<< Genesis >>), JArr(<< WrongProof >>), JArr(<< JNum(1) >>) }
    \cup (IF field = "when" THEN { JStr(NumberToString(atom.when.n)) } ELSE {})
    \cup (IF field = "prev" THEN { MergedPrev(atom.prev) } ELSE {})

\* atoms[k][field] = v, v different from the value held
changeField(k, field, v) ==
    /\ tmut = NoChange
    /\ k \in 0..(Len(tatoms) - 1)
    /\ v # tatoms[k + 1][field]
    /\ tatoms' = [tatoms EXCEPT ![k + 1][field] = v]
    /\ tmut' = [idx |-> k, field |-> field]
    /\ tva' = NoAtomResult
    /\ tvc' = NotRun
    /\ UNCHANGED << chainVars, verifyVars, merkleVars, laterVars >>

\* verifyAtom(atoms[k])
verifyAtomCall(k) ==
    /\ k \in 0..(Len(tatoms) - 1)
    /\ tva' = [idx |-> k,
               res |-> IF verifyAtomThrows(tatoms[k + 1]) THEN "throw"
                       ELSE IF verifyAtom(tatoms[k + 1]) THEN "true" ELSE "false"]
    /\ UNCHANGED << tatoms, tmut, tvc, chainVars, verifyVars, merkleVars, laterVars >>

\* verifyChain(atoms)
verifyChainCall ==
    /\ tvc = NotRun
    /\ tvc' = verifyChain(tatoms)
    /\ UNCHANGED << tatoms, tmut, tva, chainVars, verifyVars, merkleVars, laterVars >>

(* ------------------------------------------------------------------ *)
(* The Merkle functions applied to given leaf lists                     *)
(* ------------------------------------------------------------------ *)
MaxLeaves == 5

MaxPairLeaves == 3

LeafA == hash(JStr(Lit(<<"a">>)))

LeafB == hash(JStr(Lit(<<"b">>)))

\* the leaves: two digests, and the digest an inner node over them has
LeafValues == { LeafA, LeafB, hash(Plus(LeafA, LeafB)) }

LeafLists(n) == UNION { [1..m -> LeafValues] : m \in 0..n }

NoTree == [root |-> JUndefined, layers |-> <<>>]

NoProof == [idx |-> -1, steps |-> <<>>]

NoLeafResult == [run |-> FALSE, leaf |-> JUndefined, res |-> FALSE]

MerkleIdle ==
    /\ leaves = <<>> /\ tree = NoTree /\ mproof = NoProof /\ mok = NoLeafResult
    /\ leavesB = <<>> /\ treeB = NoTree

\* tree = buildMerkleTree(leaves)
buildTree ==
    /\ tree = NoTree
    /\ tree' = buildMerkleTree(leaves)
    /\ UNCHANGED << leaves, mproof, mok, leavesB, treeB, chainVars, verifyVars, tamperVars, laterVars >>

\* treeB = buildMerkleTree(leavesB)
buildTreeB ==
    /\ treeB = NoTree
    /\ treeB' = buildMerkleTree(leavesB)
    /\ UNCHANGED << leaves, tree, mproof, mok, leavesB, chainVars, verifyVars, tamperVars, laterVars >>

\* proof = getMerkleProof(tree.layers, i)
proveLeaf(i) ==
    /\ tree # NoTree
    /\ mproof = NoProof
    /\ i \in 0..(Len(leaves) - 1)
    /\ mproof' = [idx |-> i, steps |-> getMerkleProof(tree.layers, i)]
    /\ UNCHANGED << leaves, tree, mok, leavesB, treeB, chainVars, verifyVars, tamperVars, laterVars >>

\* the leaf hashes handed to the verifier: the leaves and a foreign digest
VerifiedLeaves == LeafValues \cup { WrongProof }

\* verifyMerkleProof(x, proof, tree.root)
verifyLeaf(x) ==
    /\ mproof # NoProof
    /\ ~mok.run
    /\ mok' = [run |-> TRUE, leaf |-> x,
               res |-> verifyMerkleProof(x, mproof.steps, tree.root)]
    /\ UNCHANGED << leaves, tree, mproof, leavesB, treeB, chainVars, verifyVars, tamperVars, laterVars >>

(* ------------------------------------------------------------------ *)
(* cli/index.js, mcp/server.js: log and seal against the store          *)
(* ------------------------------------------------------------------ *)
MaxStoreAtoms == 3
MaxStoreBlocks == 3

\* _empty(): the store file of a fresh installation
StoreInit == storeAtoms = <<>> /\ storeBlocks = <<>>

\* stateSnapshot(): the serialised description of the machine, one value here
stateSnapshot == JStr(Lit(<<"s">>))

\* the action text of a log command and the one forge_seal records
LogAction == JStr(Lit(<<"a">>))
SealAction == JStr(Lit(<<"forge_seal">>))

\* a lastProof that returns the proof of the first atom
lastProofOfFirst(as) == IF Len(as) = 0 THEN Genesis ELSE as[1].proof

\* Store.lastProof()
lastProof(as) == IF Len(as) = 0 THEN Genesis ELSE as[Len(as)].proof

\* Store.appendBlock(block): the block without its layers
cleanBlock(block) ==
    [root |-> block.root, atom_count |-> block.atom_count, prev_block |-> block.prev_block,
     block_hash |-> block.block_hash, created_at |-> block.created_at,
     atom_range |-> block.atom_range]

\* recordAtom(action, from, to) and the body of cmdLog: createAtom with
\* prev = store.lastProof(), then store.appendAtom
recordAtom(as, action, now) ==
    Append(as, createAtom(Identity, stateSnapshot, action, stateSnapshot, lastProof(as), now))

\* forge log <action>
cmdLog(now) ==
    /\ Len(storeAtoms) < MaxStoreAtoms
    /\ storeAtoms' = recordAtom(storeAtoms, LogAction, now)
    /\ UNCHANGED << storeBlocks, chainVars, verifyVars, tamperVars, merkleVars, divergeVars, witnessVars, moreVars >>

\* the forge_log tool
forge_log(now) ==
    /\ Len(storeAtoms) < MaxStoreAtoms
    /\ storeAtoms' = recordAtom(storeAtoms, LogAction, now)
    /\ UNCHANGED << storeBlocks, chainVars, verifyVars, tamperVars, merkleVars, divergeVars, witnessVars, moreVars >>

\* the block a seal command stores, if any: a new TrustChain has no blocks,
\* chain.atoms = store.getAtoms(), block = chain.seal()
commandSeals(as) == Len(as) > 0 /\ ~sealReturnsNull(as, <<>>)

commandBlock(as, t1, t2) == cleanBlock(sealedBlock(as, <<>>, t1, t2))

\* forge seal
cmdSeal(t1, t2) ==
    /\ Len(storeBlocks) < MaxStoreBlocks
    /\ storeBlocks' = IF commandSeals(storeAtoms)
                      THEN Append(storeBlocks, commandBlock(storeAtoms, t1, t2))
                      ELSE storeBlocks
    /\ UNCHANGED << storeAtoms, chainVars, verifyVars, tamperVars, merkleVars, divergeVars, witnessVars, moreVars >>

\* the forge_seal tool: a stored block is followed by a "forge_seal" atom
forge_seal(t1, t2, now) ==
    /\ Len(storeBlocks) < MaxStoreBlocks
    /\ Len(storeAtoms) < MaxStoreAtoms
    /\ storeBlocks' = IF commandSeals(storeAtoms)
                      THEN Append(storeBlocks, commandBlock(storeAtoms, t1, t2))
                      ELSE storeBlocks
    /\ storeAtoms' = IF commandSeals(storeAtoms)
                     THEN recordAtom(storeAtoms, SealAction, now)
                     ELSE storeAtoms
    /\ UNCHANGED << chainVars, verifyVars, tamperVars, merkleVars, divergeVars, witnessVars, moreVars >>

(* ------------------------------------------------------------------ *)
(* chain.js: findDivergence                                             *)
(* ------------------------------------------------------------------ *)
MaxDivAtoms == 2

\* the two parties of a dispute
IdentityA == JStr(Lit(<<"c">>))
IdentityB == JStr(Lit(<<"p">>))

\* what the parties record: a reference operation, one with another action,
\* one with another end state
DivergeOperations ==
    { [action |-> JStr(Lit(<<"a">>)), from |-> JStr(Lit(<<"0">>)), to |-> JStr(Lit(<<"1">>))],
      [action |-> JStr(Lit(<<"b">>)), from |-> JStr(Lit(<<"0">>)), to |-> JStr(Lit(<<"1">>))],
      [action |-> JStr(Lit(<<"a">>)), from |-> JStr(Lit(<<"0">>)), to |-> JStr(Lit(<<"2">>))] }

\* the result of findDivergence; a field the returned object lacks is undefined
NoDivergence ==
    [diverged |-> FALSE, at_index |-> -1, reason |-> "undefined",
     action_match |-> "undefined", state_match |-> "undefined",
     time_a |-> JUndefined, time_b |-> JUndefined, length_a |-> -1, length_b |-> -1]

\* no call made yet
DivergeNotRun == [NoDivergence EXCEPT !.reason = "not_run"]

DivergeInit == chainA = <<>> /\ chainB = <<>> /\ dres = DivergeNotRun

BoolText(b) == IF b THEN "true" ELSE "false"

\* a comparison that leaves the end state out
atomsDifferNoTo(a, b) == a.action # b.action \/ a.from # b.from

\* a comparison that takes the timestamps in
atomsDifferOrWhen(a, b) ==
    a.action # b.action \/ a.from # b.from \/ a.to # b.to \/ a.when # b.when

\* a.action !== b.action || a.from !== b.from || a.to !== b.to
atomsDiffer(a, b) == a.action # b.action \/ a.from # b.from \/ a.to # b.to

\* the for loop of findDivergence from index i, then the length comparison
RECURSIVE findDivergenceFrom(_, _, _)
findDivergenceFrom(A, B, i) ==
    LET minLen == IF Len(A) < Len(B) THEN Len(A) ELSE Len(B)
    IN  IF i < minLen
        THEN LET a == A[i + 1]
                 b == B[i + 1]
             IN  IF atomsDiffer(a, b)
                 THEN [NoDivergence EXCEPT
                          !.diverged = TRUE, !.at_index = i,
                          !.time_a = a.when, !.time_b = b.when,
                          !.action_match = BoolText(a.action = b.action),
                          !.state_match = BoolText(a.from = b.from /\ a.to = b.to)]
                 ELSE findDivergenceFrom(A, B, i + 1)
        ELSE IF Len(A) # Len(B)
        THEN [NoDivergence EXCEPT
                 !.diverged = TRUE, !.at_index = minLen, !.reason = "length_mismatch",
                 !.length_a = Len(A), !.length_b = Len(B)]
        ELSE NoDivergence

\* findDivergence(chainA, chainB)
findDivergence(A, B) == findDivergenceFrom(A, B, 0)

\* chainA.record(op) with Date.now() = now
recordA(op, now) ==
    /\ Len(chainA) < MaxDivAtoms
    /\ dres = DivergeNotRun
    /\ chainA' = Append(chainA, createAtom(IdentityA, op.from, op.action, op.to,
                                           lastProof(chainA), now))
    /\ UNCHANGED << chainB, dres, chainVars, verifyVars, tamperVars, merkleVars, storeVars, witnessVars, moreVars >>

\* chainB.record(op) with Date.now() = now
recordB(op, now) ==
    /\ Len(chainB) < MaxDivAtoms
    /\ dres = DivergeNotRun
    /\ chainB' = Append(chainB, createAtom(IdentityB, op.from, op.action, op.to,
                                           lastProof(chainB), now))
    /\ UNCHANGED << chainA, dres, chainVars, verifyVars, tamperVars, merkleVars, storeVars, witnessVars, moreVars >>

\* dres = findDivergence(chainA, chainB)
findDivergenceCall ==
    /\ dres = DivergeNotRun
    /\ dres' = findDivergence(chainA, chainB)
    /\ UNCHANGED << chainA, chainB, chainVars, verifyVars, tamperVars, merkleVars, storeVars, witnessVars, moreVars >>

(* ------------------------------------------------------------------ *)
(* witness.js: receipts, witness level, OpenTimestamps client           *)
(* ------------------------------------------------------------------ *)
MaxSaves == 2

\* the length a hash must have, and the number of random bytes of a nonce
HexLength == 64
NonceBytes == 16

\* OTS_CALENDARS
OTS_CALENDARS ==
    << "https://a.pool.opentimestamps.org",
       "https://b.pool.opentimestamps.org",
       "https://a.pool.eternitywall.com" >>

HexChars ==
    { "0", "1", "2", "3", "4", "5", "6", "7", "8", "9", "a", "b", "c", "d", "e", "f",
      "A", "B", "C", "D", "E", "F" }

\* the tokens of a text: a character, the hex text of a digest ("h"), the hex
\* text of a nonce ("n"); of a byte string: one byte ("b", its two hex
\* characters in s), the bytes of a digest ("hb"), the bytes of a nonce ("nb")
TokenLength(tok) ==
    IF tok.k = "h" THEN HexLength ELSE IF tok.k = "n" THEN 2 * NonceBytes ELSE 1

\* text.length
RECURSIVE TextLength(_)
TextLength(text) ==
    IF Len(text) = 0 THEN 0 ELSE TokenLength(text[1]) + TextLength(Tail(text))

IsHexToken(tok) == tok.k \in {"h", "n"} \/ (tok.k = "c" /\ tok.c \in HexChars)

\* the text is made of hexadecimal characters only
IsHexText(text) == \A i \in 1..Len(text) : IsHexToken(text[i])

\* Buffer.from(text, "hex"): two characters give one byte, decoding stops at
\* the first pair that is not hexadecimal
RECURSIVE BytesFromHex(_)
BytesFromHex(text) ==
    IF Len(text) = 0 THEN <<>>
    ELSE IF text[1].k = "h"
    THEN << [k |-> "hb", c |-> "", s |-> text[1].s] >> \o BytesFromHex(Tail(text))
    ELSE IF text[1].k = "n"
    THEN << [k |-> "nb", c |-> text[1].c, s |-> <<>>] >> \o BytesFromHex(Tail(text))
    ELSE IF Len(text) >= 2 /\ text[1].k = "c" /\ text[2].k = "c"
            /\ text[1].c \in HexChars /\ text[2].c \in HexChars
    THEN << [k |-> "b", c |-> "", s |-> << text[1], text[2] >>] >>
         \o BytesFromHex(SubSeq(text, 3, Len(text)))
    ELSE <<>>

\* buffer.toString("hex")
RECURSIVE HexFromBytes(_)
HexFromBytes(bytes) ==
    IF Len(bytes) = 0 THEN <<>>
    ELSE (IF bytes[1].k = "hb" THEN << [k |-> "h", c |-> "", s |-> bytes[1].s] >>
          ELSE IF bytes[1].k = "nb" THEN << [k |-> "n", c |-> bytes[1].c, s |-> <<>>] >>
          ELSE bytes[1].s)
         \o HexFromBytes(Tail(bytes))

\* createHash("sha256").update(bytes).digest(): the 32 bytes of the digest
Sha256Bytes(bytes) == << [k |-> "hb", c |-> "", s |-> bytes] >>

\* randomBytes(16): the values the generator may return
NonceOne == << [k |-> "nb", c |-> "1", s |-> <<>>] >>
NonceTwo == << [k |-> "nb", c |-> "2", s |-> <<>>] >>
Nonces == { NonceOne, NonceTwo }

\* the Merkle roots witnessed
RootA == hash(JStr(Lit(<<"r">>)))
RootB == hash(JStr(Lit(<<"q">>)))

\* a string of 64 characters whose last one is not hexadecimal
BadHex == JStr([i \in 1..HexLength |-> Ch(IF i = HexLength THEN "g" ELSE "a")])

\* the roots a receipt file can exist for
WitnessRoots == { RootA, RootB, BadHex }

\* what callers hand to submitToOTS: nothing, the empty string, a short hex
\* string, a Merkle root, 64 characters that are not all hexadecimal
HashInputs == { JUndefined, JStr(<<>>), JStr(Lit(<<"a", "b">>)), RootA, BadHex }

\* a receipt; a field its variant lacks is undefined
NoReceipt ==
    [type |-> "none", level |-> 0, original_hash |-> JUndefined, merkle_root |-> JUndefined,
     counterparty |-> JUndefined, receipt_hash |-> JUndefined, nonce |-> JUndefined,
     digest |-> JUndefined, calendars |-> <<>>, successful_submissions |-> -1,
     total_calendars |-> -1, bitcoin_attestations |-> <<>>, data |-> JUndefined]

\* JSON.parse(JSON.stringify(v)) of a value: an undefined array element
\* comes back as null, an undefined property is dropped and reads as undefined
JSONRoundTrip(v) ==
    IF v.ty = "array"
    THEN JArr([i \in 1..Len(v.a) |-> IF v.a[i].ty = "undefined" THEN JNull ELSE v.a[i]])
    ELSE v

\* a receipt as it comes back from its file
parsedReceipt(w) ==
    [w EXCEPT !.original_hash = JSONRoundTrip(@), !.merkle_root = JSONRoundTrip(@),
              !.counterparty = JSONRoundTrip(@), !.receipt_hash = JSONRoundTrip(@),
              !.nonce = JSONRoundTrip(@), !.digest = JSONRoundTrip(@),
              !.data = JSONRoundTrip(@)]

\* no receipt file exists, no call was made
NoSubmission ==
    [phase |-> "idle", hashHex |-> JUndefined, nonce |-> <<>>, pending |-> {},
     results |-> <<>>, errors |-> <<>>, receipt |-> NoReceipt]

WitnessInit ==
    /\ witnesses = [r \in WitnessRoots |-> <<>>]
    /\ saveLog = <<>>
    /\ sent = {}
    /\ ots = NoSubmission

\* loadWitnesses(merkleRoot): the parsed file, [] when there is none
loadWitnesses(ws, merkleRoot) ==
    IF merkleRoot \in DOMAIN ws THEN ws[merkleRoot] ELSE <<>>

\* a save that starts from an empty list whatever the file holds
saveWitnessOverwrite(ws, merkleRoot, witness) ==
    [ws EXCEPT ![merkleRoot] = << parsedReceipt(witness) >>]

\* saveWitness(merkleRoot, witness): the files after existing.push(witness)
\* and writeFileSync
saveWitness(ws, merkleRoot, witness) ==
    [ws EXCEPT ![merkleRoot] = Append(loadWitnesses(ws, merkleRoot), parsedReceipt(witness))]

\* a level function that reports the last receipt's level
witnessLevelLast(ws, merkleRoot) ==
    LET list == loadWitnesses(ws, merkleRoot)
    IN  IF Len(list) = 0 THEN [level |-> 1, witness |-> NoReceipt]
        ELSE [level |-> list[Len(list)].level, witness |-> list[Len(list)]]

\* the for loop of witnessLevel from position k with the running maximum
RECURSIVE witnessLevelFrom(_, _, _, _)
witnessLevelFrom(list, k, maxLevel, bestWitness) ==
    IF k > Len(list) THEN [level |-> maxLevel, witness |-> bestWitness]
    ELSE LET lvl == IF list[k].level = 0 THEN 1 ELSE list[k].level
         IN  IF lvl > maxLevel
             THEN witnessLevelFrom(list, k + 1, lvl, list[k])
             ELSE witnessLevelFrom(list, k + 1, maxLevel, bestWitness)

\* witnessLevel(merkleRoot): level and best witness (null when none is above level 1)
witnessLevel(ws, merkleRoot) ==
    LET list == loadWitnesses(ws, merkleRoot)
    IN  IF Len(list) = 0 THEN [level |-> 1, witness |-> NoReceipt]
        ELSE witnessLevelFrom(list, 1, 1, NoReceipt)

\* the receipts the callers of saveWitness hand over: the test's receipt, an
\* ots_confirmed receipt, a self receipt
GivenReceipts ==
    { [NoReceipt EXCEPT !.type = "test", !.level = 3, !.data = JStr(Lit(<<"h", "i">>))],
      [NoReceipt EXCEPT !.type = "ots_confirmed", !.level = 4, !.original_hash = RootA],
      [NoReceipt EXCEPT !.type = "self", !.level = 1] }

\* the receipt createBilateralWitness builds with Date.now() = now
bilateralReceipt(merkleRoot, counterparty, now) ==
    [NoReceipt EXCEPT
        !.type = "bilateral", !.level = 2, !.merkle_root = merkleRoot,
        !.counterparty = counterparty,
        !.receipt_hash =
            JStr(Sha256Hex(Lit(<<"b", "i", "l", "a", "t", "e", "r", "a", "l", ":">>)
                           \o ToStringPrimitive(merkleRoot) \o Lit(<<":">>)
                           \o ToStringPrimitive(counterparty) \o Lit(<<":">>)
                           \o NumberToString(now)))]

Counterparties == { JStr(Lit(<<"o">>)) }

\* !hashHex || hashHex.length !== 64
invalidHash(hashHex) ==
    \/ hashHex.ty \in {"undefined", "null"}
    \/ (hashHex.ty = "string" /\ Len(hashHex.s) = 0)
    \/ TextLength(ToStringPrimitive(hashHex)) # HexLength

\* a request body that carries the hash bytes themselves
otsDigestUnblinded(nonce, hashHex) == BytesFromHex(hashHex.s)

\* digest = SHA256(nonce || hashBytes), the 32 raw bytes
otsDigest(nonce, hashHex) == Sha256Bytes(nonce \o BytesFromHex(hashHex.s))

\* the POST of submitToOTS to one calendar
postRequest(calendarUrl, nonce, hashHex) ==
    [method |-> "POST", calendar |-> calendarUrl,
     path |-> Lit(<<"/", "d", "i", "g", "e", "s", "t">>),
     body |-> otsDigest(nonce, hashHex)]

\* the GET of checkOTSUpgrade to one calendar
getRequest(calendarUrl, digest) ==
    [method |-> "GET", calendar |-> calendarUrl,
     path |-> Lit(<<"/", "t", "i", "m", "e", "s", "t", "a", "m", "p", "/">>)
              \o ToStringPrimitive(digest),
     body |-> <<>>]

\* how one request to a calendar can end
SubmitOutcomes == { "2xx", "non2xx", "timeout", "network" }

\* the entry pushed to results (status submitted) or to errors (status error)
calendarEntry(calendarUrl, outcome) ==
    [calendar |-> calendarUrl,
     status |-> IF outcome = "2xx" THEN "submitted" ELSE "error",
     error |-> IF outcome = "2xx" THEN "undefined" ELSE outcome]

\* the receipt object of submitToOTS
otsReceipt(hashHex, nonce, results, errors) ==
    [NoReceipt EXCEPT
        !.type = "ots_pending",
        !.level = IF Len(results) > 0 THEN 3 ELSE 1,
        !.original_hash = hashHex,
        !.nonce = JStr(HexFromBytes(nonce)),
        !.digest = JStr(HexFromBytes(otsDigest(nonce, hashHex))),
        !.calendars = results \o errors,
        !.successful_submissions = Len(results),
        !.total_calendars = Len(OTS_CALENDARS)]

\* await that resumes as soon as one request has settled
anySettled(pending) == pending # 1..Len(OTS_CALENDARS)

\* await Promise.allSettled(submissions)
allSettled(pending) == pending = {}

\* saveWitness(root, witness) from the test or another caller
saveWitnessCall(root, w) ==
    /\ Len(saveLog) < MaxSaves
    /\ ots.phase # "waiting"
    /\ witnesses' = saveWitness(witnesses, root, w)
    /\ saveLog' = Append(saveLog, [root |-> root, witness |-> w])
    /\ UNCHANGED << sent, ots, chainVars, verifyVars, tamperVars, merkleVars,
                    storeVars, divergeVars, moreVars >>

\* createBilateralWitness(merkleRoot, counterparty) with Date.now() = now
createBilateralWitness(root, counterparty, now) ==
    /\ Len(saveLog) < MaxSaves
    /\ ots.phase # "waiting"
    /\ LET receipt == bilateralReceipt(root, counterparty, now)
       IN  /\ witnesses' = saveWitness(witnesses, root, receipt)
           /\ saveLog' = Append(saveLog, [root |-> root, witness |-> receipt])
    /\ UNCHANGED << sent, ots, chainVars, verifyVars, tamperVars, merkleVars,
                    storeVars, divergeVars, moreVars >>

\* results and errors when the requests settle in the order of the calendars
RECURSIVE settledInOrder(_, _, _)
settledInOrder(outcomes, k, status) ==
    IF k > Len(OTS_CALENDARS) THEN <<>>
    ELSE (IF calendarEntry(OTS_CALENDARS[k], outcomes[k]).status = status
          THEN << calendarEntry(OTS_CALENDARS[k], outcomes[k]) >> ELSE <<>>)
         \o settledInOrder(outcomes, k + 1, status)

\* submitToOTS(hashHex) from its first line to its return, the requests
\* settling in the order of the calendars
submitToOTS(hashHex, nonce, outcomes) ==
    /\ Len(saveLog) < MaxSaves
    /\ ots.phase = "idle"
    /\ ~invalidHash(hashHex)
    /\ LET results == settledInOrder(outcomes, 1, "submitted")
           errors == settledInOrder(outcomes, 1, "error")
           receipt == otsReceipt(hashHex, nonce, results, errors)
       IN  /\ sent' = sent \cup { postRequest(OTS_CALENDARS[k], nonce, hashHex) :
                                     k \in 1..Len(OTS_CALENDARS) }
           /\ IF Len(results) > 0
              THEN /\ witnesses' = saveWitness(witnesses, hashHex, receipt)
                   /\ saveLog' = Append(saveLog, [root |-> hashHex, witness |-> receipt])
              ELSE UNCHANGED << witnesses, saveLog >>
    /\ UNCHANGED << ots, chainVars, verifyVars, tamperVars, merkleVars,
                    storeVars, divergeVars, moreVars >>

\* submitToOTS(hashHex) up to its await: the check of the argument, the
\* nonce, one POST per calendar
submitStart(hashHex, nonce) ==
    /\ ots.phase = "idle"
    /\ IF invalidHash(hashHex)
       THEN /\ ots' = [NoSubmission EXCEPT !.phase = "thrown", !.hashHex = hashHex]
            /\ UNCHANGED sent
       ELSE /\ ots' = [NoSubmission EXCEPT !.phase = "waiting", !.hashHex = hashHex,
                                           !.nonce = nonce,
                                           !.pending = 1..Len(OTS_CALENDARS)]
            /\ sent' = sent \cup { postRequest(OTS_CALENDARS[k], nonce, hashHex) :
                                      k \in 1..Len(OTS_CALENDARS) }
    /\ UNCHANGED << witnesses, saveLog, chainVars, verifyVars, tamperVars, merkleVars,
                    storeVars, divergeVars, moreVars >>

\* the request to calendar k settles: results.push or errors.push
settle(k, outcome) ==
    /\ ots.phase = "waiting"
    /\ k \in ots.pending
    /\ ots' = [ots EXCEPT
                  !.pending = @ \ {k},
                  !.results = IF outcome = "2xx"
                              THEN Append(@, calendarEntry(OTS_CALENDARS[k], outcome))
                              ELSE @,
                  !.errors = IF outcome = "2xx" THEN @
                             ELSE Append(@, calendarEntry(OTS_CALENDARS[k], outcome))]
    /\ UNCHANGED << witnesses, saveLog, sent, chainVars, verifyVars, tamperVars,
                    merkleVars, storeVars, divergeVars, moreVars >>

\* submitToOTS after its await: the receipt, saveWitness when a calendar
\* accepted, return
submitFinish ==
    /\ ots.phase = "waiting"
    /\ allSettled(ots.pending)
    /\ LET receipt == otsReceipt(ots.hashHex, ots.nonce, ots.results, ots.errors)
       IN  /\ ots' = [ots EXCEPT !.phase = "returned", !.receipt = receipt]
           /\ IF Len(ots.results) > 0
              THEN /\ witnesses' = saveWitness(witnesses, ots.hashHex, receipt)
                   /\ saveLog' = Append(saveLog, [root |-> ots.hashHex, witness |-> receipt])
              ELSE UNCHANGED << witnesses, saveLog >>
    /\ UNCHANGED << sent, chainVars, verifyVars, tamperVars, merkleVars,
                    storeVars, divergeVars, moreVars >>

\* how one upgrade query can end: a body with the Bitcoin attestation
\* marker, a body without it, a status that is not ok, a failed request
UpgradeOutcomes == { "bitcoin", "no_marker", "not_ok", "failed" }

\* response.ok of an outcome; "not_ok_marker" is a status that is not ok
\* with the marker byte in its body
responseOk(outcome) == outcome \in { "bitcoin", "no_marker" }

\* body.includes(Buffer.from([OTS_OP.ATTESTATION_BITCOIN]))
bodyHasMarker(outcome) == outcome \in { "bitcoin", "not_ok_marker" }

\* a check of the body that does not look at response.ok
attestedAnyStatus(outcome) == bodyHasMarker(outcome)

\* response.ok and the marker found in the body
attested(outcome) == responseOk(outcome) /\ bodyHasMarker(outcome)

\* the first receipt of type ots_pending (0 when there is none)
firstPending(list) ==
    IF \E i \in 1..Len(list) : list[i].type = "ots_pending"
    THEN CHOOSE i \in 1..Len(list) :
            /\ list[i].type = "ots_pending"
            /\ \A j \in 1..(i - 1) : list[j].type # "ots_pending"
    ELSE 0

\* the entries pushed to upgraded by the loop over pending.calendars from position k
RECURSIVE upgradedFrom(_, _, _)
upgradedFrom(calendars, outcomes, k) ==
    IF k > Len(calendars) THEN <<>>
    ELSE (IF calendars[k].status = "submitted" /\ attested(outcomes[k])
          THEN << [calendar |-> calendars[k].calendar, status |-> "confirmed",
                   error |-> "undefined"] >>
          ELSE <<>>)
         \o upgradedFrom(calendars, outcomes, k + 1)

\* checkOTSUpgrade(merkleRoot): one GET per submitted calendar of the first
\* pending receipt, an ots_confirmed receipt saved when a calendar upgraded
checkOTSUpgrade(merkleRoot, outcomes) ==
    /\ Len(saveLog) < MaxSaves
    /\ ots.phase # "waiting"
    /\ LET list == loadWitnesses(witnesses, merkleRoot)
           p == firstPending(list)
       IN  /\ p # 0
           /\ LET pending == list[p]
                  upgraded == upgradedFrom(pending.calendars, outcomes, 1)
                  anchorWitness ==
                      [NoReceipt EXCEPT !.type = "ots_confirmed", !.level = 4,
                                        !.original_hash = merkleRoot,
                                        !.bitcoin_attestations = upgraded]
              IN  /\ sent' = sent \cup
                        { getRequest(pending.calendars[k].calendar, pending.digest) :
                            k \in { j \in 1..Len(pending.calendars) :
                                      pending.calendars[j].status = "submitted" } }
                  /\ IF Len(upgraded) > 0
                     THEN /\ witnesses' = saveWitness(witnesses, merkleRoot, anchorWitness)
                          /\ saveLog' = Append(saveLog, [root |-> merkleRoot,
                                                         witness |-> anchorWitness])
                     ELSE UNCHANGED << witnesses, saveLog >>
    /\ UNCHANGED << ots, chainVars, verifyVars, tamperVars, merkleVars,
                    storeVars, divergeVars, moreVars >>

MaxOtsSaves == 3

\* the returned object of checkOTSUpgrade, with the requests the call made;
\* a field the object lacks is 0 or undefined
NoUpgradeResult ==
    [status |-> "not_run", merkle_root |-> JUndefined, upgraded |-> 0, pending |-> 0,
     details |-> <<>>, new_level |-> 0, requests |-> <<>>]

UpgradeInit == ures = NoUpgradeResult

\* the entries pushed to still_pending by the loop over pending.calendars from position k
RECURSIVE stillPendingFrom(_, _, _)
stillPendingFrom(calendars, outcomes, k) ==
    IF k > Len(calendars) THEN <<>>
    ELSE (IF calendars[k].status = "submitted" /\ ~attested(outcomes[k])
          THEN << [calendar |-> calendars[k].calendar,
                   status |-> IF ~responseOk(outcomes[k]) /\ outcomes[k] # "failed"
                              THEN "unavailable"
                              ELSE IF outcomes[k] = "failed" THEN "error"
                              ELSE "still_pending",
                   error |-> "undefined"] >>
          ELSE <<>>)
         \o stillPendingFrom(calendars, outcomes, k + 1)

\* the fetch calls of the loop over pending.calendars from position k, in order
RECURSIVE upgradeRequestsFrom(_, _, _)
upgradeRequestsFrom(calendars, digest, k) ==
    IF k > Len(calendars) THEN <<>>
    ELSE (IF calendars[k].status = "submitted"
          THEN << getRequest(calendars[k].calendar, digest) >> ELSE <<>>)
         \o upgradeRequestsFrom(calendars, digest, k + 1)

\* what the servers answer to the three queries of one call
UpgradeCases ==
    { << "bitcoin", "bitcoin", "bitcoin" >>,
      << "no_marker", "bitcoin", "failed" >>,
      << "not_ok_marker", "not_ok", "no_marker" >>,
      << "failed", "not_ok_marker", "bitcoin" >> }

\* what the calendars answer to the three POSTs of one submission
SubmitCases ==
    { << "2xx", "2xx", "2xx" >>,
      << "2xx", "timeout", "2xx" >>,
      << "non2xx", "2xx", "network" >>,
      << "timeout", "timeout", "timeout" >> }

\* result = await checkOTSUpgrade(merkleRoot)
checkOTSUpgradeCall(merkleRoot, outcomes) ==
    /\ ots.phase # "waiting"
    /\ LET list == loadWitnesses(witnesses, merkleRoot)
           p == firstPending(list)
       IN  IF p = 0
           THEN /\ ures' = [NoUpgradeResult EXCEPT !.status = "no_pending"]
                /\ UNCHANGED << witnesses, saveLog, sent >>
           ELSE LET pending == list[p]
                    upgraded == upgradedFrom(pending.calendars, outcomes, 1)
                    still_pending == stillPendingFrom(pending.calendars, outcomes, 1)
                    requests == upgradeRequestsFrom(pending.calendars, pending.digest, 1)
                    anchorWitness ==
                        [NoReceipt EXCEPT !.type = "ots_confirmed", !.level = 4,
                                          !.original_hash = merkleRoot,
                                          !.bitcoin_attestations = upgraded]
                IN  /\ Len(upgraded) > 0 => Len(saveLog) < MaxOtsSaves
                    /\ sent' = sent \cup { requests[i] : i \in 1..Len(requests) }
                    /\ ures' = [NoUpgradeResult EXCEPT
                                   !.status = "checked", !.merkle_root = merkleRoot,
                                   !.upgraded = Len(upgraded),
                                   !.pending = Len(still_pending),
                                   !.details = upgraded \o still_pending,
                                   !.new_level = IF Len(upgraded) > 0 THEN 4 ELSE 0,
                                   !.requests = requests]
                    /\ IF Len(upgraded) > 0
                       THEN /\ witnesses' = saveWitness(witnesses, merkleRoot, anchorWitness)
                            /\ saveLog' = Append(saveLog, [root |-> merkleRoot,
                                                           witness |-> anchorWitness])
                       ELSE UNCHANGED << witnesses, saveLog >>
    /\ UNCHANGED << ots, chainVars, verifyVars, tamperVars, merkleVars,
                    storeVars, divergeVars, pastUpgradeVars >>

(* ------------------------------------------------------------------ *)
(* mcp/server.js: Store                                                 *)
(* ------------------------------------------------------------------ *)
MaxApiAtoms == 2
MaxApiBlocks == 1

\* an atom without _raw, a block without layers
NoRaw == [present |-> FALSE, who |-> JUndefined, action |-> JUndefined, when |-> JUndefined]
NoLayers == [present |-> FALSE, v |-> <<>>]

\* the object createAtom returns: the atom and atom._raw = { who, action, when }
createdAtom(who, from, action, to, prev, now) ==
    [atom |-> createAtom(who, from, action, to, prev, now),
     raw |-> [present |-> TRUE, who |-> who, action |-> action, when |-> JNum(now)]]

\* the block chain.seal() returns for a chain of the given atoms: it has layers
withLayers(block) ==
    [block |-> cleanBlock(block), layers |-> [present |-> TRUE, v |-> block.layers]]

createdBlock(as, t1, t2) == withLayers(sealedBlock(as, <<>>, t1, t2))

\* Store._empty(); version, created_at and meta are left out of the data
_empty == [valid |-> TRUE, atoms |-> <<>>, blocks |-> <<>>]

\* a JSON value that is no store data, such as null: it has no atoms
ForeignData == [valid |-> FALSE, atoms |-> <<>>, blocks |-> <<>>]

\* a file: absent, holding JSON.stringify(data), or holding bytes that
\* JSON.parse rejects (garbage; nothing at all; the head of a JSON text)
NoFile == [kind |-> "absent", data |-> _empty]
GarbageFile == [kind |-> "garbage", data |-> _empty]
EmptyFile == [kind |-> "empty", data |-> _empty]
jsonFile(data) == [kind |-> "json", data |-> data]
partialFile(data) == [kind |-> "partial", data |-> data]

\* Store._load() without its try/catch
_loadNoCatch(file) ==
    IF file.kind = "json" THEN [threw |-> FALSE, data |-> file.data]
    ELSE [threw |-> file.kind # "absent", data |-> _empty]

\* Store._load(): existsSync, then JSON.parse(readFileSync) inside try/catch
_load(file) ==
    IF file.kind = "json" THEN [threw |-> FALSE, data |-> file.data]
    ELSE [threw |-> FALSE, data |-> _empty]

\* Store._loadActions(); the data of the sidecar are its entries
_loadActions(file) ==
    IF file.kind = "json" THEN [threw |-> FALSE, data |-> file.data]
    ELSE [threw |-> FALSE, data |-> {}]

\* no Store constructed yet
NoStore == [open |-> FALSE, data |-> _empty, actions |-> {}]

\* what a call returned; a part the value lacks is empty
NoReturn == [op |-> "none", threw |-> FALSE, index |-> -1, atoms |-> <<>>,
             blocks |-> <<>>, exported_at |-> -1]

\* a fresh installation
ApiIdle ==
    /\ chainFile = NoFile
    /\ actionsFile = [kind |-> "absent", data |-> {}]
    /\ store = NoStore
    /\ sret = NoReturn

\* the atoms of the data as the chain functions take them
plainAtoms(data) == [i \in 1..Len(data.atoms) |-> data.atoms[i].atom]

\* an appendAtom that returns the new length
appendAtomCountAfter(data, atom) ==
    LET clean == [atom |-> atom.atom, raw |-> NoRaw]
        next == [data EXCEPT !.atoms = Append(@, clean)]
    IN  [data |-> next, index |-> Len(next.atoms)]

\* Store.appendAtom(atom) up to _save: the new data and the returned index
appendAtom(data, atom) ==
    LET clean == [atom |-> atom.atom, raw |-> NoRaw]
        next == [data EXCEPT !.atoms = Append(@, clean)]
    IN  [data |-> next, index |-> Len(next.atoms) - 1]

\* Store.appendBlock(block) up to _save
appendBlock(data, block) ==
    LET clean == [block |-> block.block, layers |-> NoLayers]
        next == [data EXCEPT !.blocks = Append(@, clean)]
    IN  [data |-> next, index |-> Len(next.blocks) - 1]

\* Store.getAtom(index): this._data.atoms[index] || null
getAtom(data, index) ==
    IF index >= 0 /\ index < Len(data.atoms) THEN data.atoms[index + 1]
    ELSE [atom |-> NullProof.atom, raw |-> NoRaw]

\* Store.importChain(data) up to _save: atoms and blocks are taken as given
importChain(data, given) ==
    [data EXCEPT !.atoms = IF given.atoms.present THEN given.atoms.v ELSE @,
                 !.blocks = IF given.blocks.present THEN given.blocks.v ELSE @]

\* Store.exportAll() with Date.now() = now
exportAll(data, now) ==
    [NoReturn EXCEPT !.op = "exportAll", !.atoms = data.atoms, !.blocks = data.blocks,
                     !.exported_at = now]

\* the texts given to saveAction
ActionTexts == { LogAction, SealAction }

\* the values Date.now() takes during the calls on the Store
ApiTimes == { 0 }

\* the atoms given to appendAtom: created on the stored chain
AppendInputs(data) ==
    { createdAtom(Identity, stateSnapshot, action, stateSnapshot,
                  lastProof(plainAtoms(data)), now) :
          action \in ActionTexts, now \in ApiTimes }

\* another party's chain of one atom and one block, as its process holds it
ForeignAtom == createdAtom(IdentityB, stateSnapshot, LogAction, stateSnapshot, Genesis, 0)
ForeignBlock == createdBlock(<< ForeignAtom.atom >>, 0, 0)

\* the values given to importChain: an export of that chain, the arrays of
\* the running chain, and an object with neither atoms nor blocks
ImportInputs ==
    { [atoms |-> [present |-> TRUE, v |-> << [ForeignAtom EXCEPT !.raw = NoRaw] >>],
       blocks |-> [present |-> TRUE, v |-> << [ForeignBlock EXCEPT !.layers = NoLayers] >>]],
      [atoms |-> [present |-> TRUE, v |-> << ForeignAtom >>],
       blocks |-> [present |-> TRUE, v |-> << ForeignBlock >>]],
      [atoms |-> [present |-> FALSE, v |-> <<>>],
       blocks |-> [present |-> FALSE, v |-> <<>>]] }

\* new Store(): _load and _loadActions; nothing is written
newStore ==
    /\ ~store.open
    /\ LET d == _load(chainFile)
           a == _loadActions(actionsFile)
       IN  /\ store' = [open |-> ~d.threw /\ ~a.threw, data |-> d.data, actions |-> a.data]
           /\ sret' = [NoReturn EXCEPT !.op = "new", !.threw = d.threw \/ a.threw]
    /\ UNCHANGED << chainFile, actionsFile, chainVars, verifyVars, tamperVars, merkleVars,
                    storeVars, divergeVars, witnessVars, upgradeVars, pastApiVars >>

\* the process ends; its files stay
exitProcess ==
    /\ store.open
    /\ store' = NoStore
    /\ sret' = NoReturn
    /\ UNCHANGED << chainFile, actionsFile, chainVars, verifyVars, tamperVars, merkleVars,
                    storeVars, divergeVars, witnessVars, upgradeVars, pastApiVars >>

\* index = store.appendAtom(atom); on data without atoms the push throws
appendAtomCall(atom) ==
    /\ store.open
    /\ Len(store.data.atoms) < MaxApiAtoms
    /\ IF store.data.valid
       THEN LET r == appendAtom(store.data, atom)
            IN  /\ store' = [store EXCEPT !.data = r.data]
                /\ chainFile' = jsonFile(r.data)
                /\ sret' = [NoReturn EXCEPT !.op = "appendAtom", !.index = r.index]
       ELSE /\ sret' = [NoReturn EXCEPT !.op = "appendAtom", !.threw = TRUE]
            /\ UNCHANGED << store, chainFile >>
    /\ UNCHANGED << actionsFile, chainVars, verifyVars, tamperVars, merkleVars,
                    storeVars, divergeVars, witnessVars, upgradeVars, pastApiVars >>

\* appendBlock pushed and saved: r is the new data and the returned index
appendBlockDone(r) ==
    /\ store' = [store EXCEPT !.data = r.data]
    /\ chainFile' = jsonFile(r.data)
    /\ sret' = [NoReturn EXCEPT !.op = "appendBlock", !.index = r.index]

\* store.appendBlock(block) with the block chain.seal() made of the stored atoms
appendBlockCall(t1, t2) ==
    /\ store.open
    /\ store.data.valid
    /\ Len(store.data.atoms) > 0
    /\ Len(store.data.blocks) < MaxApiBlocks
    /\ appendBlockDone(appendBlock(store.data, createdBlock(plainAtoms(store.data), t1, t2)))
    /\ UNCHANGED << actionsFile, chainVars, verifyVars, tamperVars, merkleVars,
                    storeVars, divergeVars, witnessVars, upgradeVars, pastApiVars >>

\* store.saveAction(hash(text), text) with Date.now() = now, then _saveActions
saveActionCall(text, now) ==
    /\ store.open
    /\ LET entry == [hash |-> hash(text), plaintext |-> text, recorded_at |-> now]
           entries == { e \in store.actions : e.hash # entry.hash } \cup { entry }
       IN  /\ store' = [store EXCEPT !.actions = entries]
           /\ actionsFile' = [kind |-> "json", data |-> entries]
    /\ sret' = [NoReturn EXCEPT !.op = "saveAction"]
    /\ UNCHANGED << chainFile, chainVars, verifyVars, tamperVars, merkleVars,
                    storeVars, divergeVars, witnessVars, upgradeVars, pastApiVars >>

\* store.importChain(given), then _save
importChainCall(given) ==
    /\ store.open
    /\ store.data.valid
    /\ LET next == importChain(store.data, given)
       IN  /\ store' = [store EXCEPT !.data = next]
           /\ chainFile' = jsonFile(next)
    /\ sret' = [NoReturn EXCEPT !.op = "importChain"]
    /\ UNCHANGED << actionsFile, chainVars, verifyVars, tamperVars, merkleVars,
                    storeVars, divergeVars, witnessVars, upgradeVars, pastApiVars >>

\* store.exportAll()
exportAllCall(now) ==
    /\ store.open
    /\ sret' = exportAll(store.data, now)
    /\ UNCHANGED << chainFile, actionsFile, store, chainVars, verifyVars, tamperVars,
                    merkleVars, storeVars, divergeVars, witnessVars, upgradeVars,
                    pastApiVars >>

(* ------------------------------------------------------------------ *)
(* writeFileSync in Store._save and saveWitness, and a reading process   *)
(* ------------------------------------------------------------------ *)
\* no write under way: the process is outside writeFileSync
NoWrite == [file |-> "none", list |-> <<>>]

\* no write under way and nothing read
FileIdle ==
    /\ wfile = [kind |-> "absent", data |-> <<>>]
    /\ wpos = NoWrite
    /\ seen = [file |-> "none", kind |-> "none"]

\* writeFileSync(path, text) opens the path for writing with truncation: the
\* file holds no bytes until the text is written
openTruncating(old, content) == [kind |-> "empty", data |-> old.data]

\* appendAtom(atom) as far as the open of writeFileSync in _save
appendAtomOpen(atom) ==
    /\ store.open /\ store.data.valid
    /\ wpos = NoWrite
    /\ Len(store.data.atoms) < MaxApiAtoms
    /\ LET r == appendAtom(store.data, atom)
       IN  /\ store' = [store EXCEPT !.data = r.data]
           /\ chainFile' = openTruncating(chainFile, r.data)
           /\ sret' = [NoReturn EXCEPT !.op = "appendAtom", !.index = r.index]
    /\ wpos' = [file |-> "chain", list |-> <<>>]
    /\ UNCHANGED << actionsFile, wfile, seen, toolVars, chainVars, verifyVars, tamperVars,
                    merkleVars, storeVars, divergeVars, witnessVars, upgradeVars, lastVars >>

\* appendBlock(block) as far as the open of writeFileSync in _save
appendBlockOpen(t1, t2) ==
    /\ store.open /\ store.data.valid
    /\ wpos = NoWrite
    /\ Len(store.data.atoms) > 0
    /\ Len(store.data.blocks) < MaxApiBlocks
    /\ LET r == appendBlock(store.data, createdBlock(plainAtoms(store.data), t1, t2))
       IN  /\ store' = [store EXCEPT !.data = r.data]
           /\ chainFile' = openTruncating(chainFile, r.data)
           /\ sret' = [NoReturn EXCEPT !.op = "appendBlock", !.index = r.index]
    /\ wpos' = [file |-> "chain", list |-> <<>>]
    /\ UNCHANGED << actionsFile, wfile, seen, toolVars, chainVars, verifyVars, tamperVars,
                    merkleVars, storeVars, divergeVars, witnessVars, upgradeVars, lastVars >>

\* saveWitness(RootA, witness) as far as the open of writeFileSync
saveWitnessOpen(witness) ==
    /\ wpos = NoWrite
    /\ LET existing == IF wfile.kind = "json" THEN wfile.data ELSE <<>>
           list == Append(existing, parsedReceipt(witness))
       IN  /\ Len(existing) < MaxSaves
           /\ wfile' = openTruncating(wfile, list)
           /\ wpos' = [file |-> "witness", list |-> list]
    /\ UNCHANGED << apiVars, seen, toolVars, chainVars, verifyVars, tamperVars,
                    merkleVars, storeVars, divergeVars, witnessVars, upgradeVars, lastVars >>

\* a write call of the open file has put the head of the text in the file
writePart ==
    /\ wpos # NoWrite
    /\ IF wpos.file = "chain"
       THEN /\ chainFile.kind = "empty"
            /\ chainFile' = partialFile(store.data)
            /\ UNCHANGED wfile
       ELSE /\ wfile.kind = "empty"
            /\ wfile' = [kind |-> "partial", data |-> wpos.list]
            /\ UNCHANGED chainFile
    /\ UNCHANGED << actionsFile, store, sret, wpos, seen, toolVars, chainVars, verifyVars,
                    tamperVars, merkleVars, storeVars, divergeVars, witnessVars, upgradeVars, lastVars >>

\* the whole text is written and writeFileSync returns
writeDone ==
    /\ wpos # NoWrite
    /\ IF wpos.file = "chain"
       THEN chainFile' = jsonFile(store.data) /\ UNCHANGED wfile
       ELSE wfile' = [kind |-> "json", data |-> wpos.list] /\ UNCHANGED chainFile
    /\ wpos' = NoWrite
    /\ UNCHANGED << actionsFile, store, sret, seen, toolVars, chainVars, verifyVars,
                    tamperVars, merkleVars, storeVars, divergeVars, witnessVars, upgradeVars, lastVars >>

\* another process reads chain.json (file = "chain") or the witness file
readFile(file) ==
    /\ seen' = [file |-> file,
                kind |-> IF file = "chain" THEN chainFile.kind ELSE wfile.kind]
    /\ UNCHANGED << apiVars, wfile, wpos, toolVars, chainVars, verifyVars, tamperVars,
                    merkleVars, storeVars, divergeVars, witnessVars, upgradeVars, lastVars >>

(* ------------------------------------------------------------------ *)
(* cli/index.js: the exit code of a forge command                       *)
(* ------------------------------------------------------------------ *)
MaxCliAtoms == 2
MaxCliBlocks == 1

\* the outcome of one run of the command line: the command, the exit code of
\* the process, whether the run was a usage error, the index verify reported
\* as broken (-1: none), whether an exception ended the run
NoCommand == [cmd |-> "none", exit |-> -1, usage |-> FALSE, broken |-> -1, threw |-> FALSE]

\* the process ends by process.exit(code), by an uncaught exception (code 1),
\* or by returning from the command with nothing left to run (code 0)
UsageExitCode == 1

\* args.slice(1).join(" ") of forge log: no words give the empty string
LogArguments == { JStr(<<>>), LogAction }

\* the words after forge witness
Party == JStr(Lit(<<"p">>))
WitnessArguments == { <<>>, << "--bilateral" >>, << "--bilateral", "party" >> }

\* the loop of cmdVerify from the atom at position i
RECURSIVE cmdVerifyFrom(_, _)
cmdVerifyFrom(as, i) ==
    IF i > Len(as) THEN [broken |-> -1, threw |-> FALSE]
    ELSE IF verifyAtomThrows(as[i]) THEN [broken |-> -1, threw |-> TRUE]
    ELSE IF ~verifyAtom(as[i]) THEN [broken |-> i - 1, threw |-> FALSE]
    ELSE IF i > 1 /\ ~PrevIncludes(as[i].prev, as[i - 1].proof)
    THEN [broken |-> i - 1, threw |-> FALSE]
    ELSE cmdVerifyFrom(as, i + 1)

\* forge log <words>: cmdLog(action) and the end of the process
runLog(action, now) ==
    /\ Len(storeAtoms) < MaxCliAtoms
    /\ IF action.s = <<>>
       THEN /\ cli' = [NoCommand EXCEPT !.cmd = "log", !.exit = UsageExitCode, !.usage = TRUE]
            /\ UNCHANGED storeAtoms
       ELSE /\ storeAtoms' = recordAtom(storeAtoms, action, now)
            /\ cli' = [NoCommand EXCEPT !.cmd = "log", !.exit = 0]
    /\ UNCHANGED << storeBlocks, mcp, chainVars, verifyVars, tamperVars, merkleVars,
                    divergeVars, witnessVars, upgradeVars, lastVars, apiVars, fileVars >>

\* chain.json is edited outside the program: the action of one atom is replaced
editChainFile(i) ==
    /\ i \in 1..Len(storeAtoms)
    /\ storeAtoms[i].action # hash(SealAction)
    /\ storeAtoms' = [storeAtoms EXCEPT ![i].action = hash(SealAction)]
    /\ UNCHANGED << storeBlocks, toolVars, chainVars, verifyVars, tamperVars, merkleVars,
                    divergeVars, witnessVars, upgradeVars, lastVars, apiVars, fileVars >>

\* forge verify: cmdVerify() and the end of the process
runVerify ==
    /\ LET r == cmdVerifyFrom(storeAtoms, 1)
       IN  cli' = [NoCommand EXCEPT !.cmd = "verify", !.broken = r.broken, !.threw = r.threw,
                                    !.exit = IF r.threw THEN 1 ELSE 0]
    /\ UNCHANGED << storeVars, mcp, chainVars, verifyVars, tamperVars, merkleVars,
                    divergeVars, witnessVars, upgradeVars, lastVars, apiVars, fileVars >>

\* forge seal: cmdSeal() and the end of the process
runSeal(t1, t2) ==
    /\ Len(storeBlocks) < MaxCliBlocks
    /\ storeBlocks' = IF commandSeals(storeAtoms)
                      THEN Append(storeBlocks, commandBlock(storeAtoms, t1, t2))
                      ELSE storeBlocks
    /\ cli' = [NoCommand EXCEPT !.cmd = "seal", !.exit = 0]
    /\ UNCHANGED << storeAtoms, mcp, chainVars, verifyVars, tamperVars, merkleVars,
                    divergeVars, witnessVars, upgradeVars, lastVars, apiVars, fileVars >>

\* forge witness <words>: cmdWitness(subArgs) and the end of the process
runWitness(subArgs, now) ==
    /\ Len(saveLog) < MaxSaves
    /\ LET noBlocks == Len(storeBlocks) = 0
           bilateral == \E k \in 1..Len(subArgs) : subArgs[k] = "--bilateral"
           noParty == bilateral /\ Len(subArgs) < 2
           merkleRoot == storeBlocks[Len(storeBlocks)].root
           receipt == bilateralReceipt(merkleRoot, Party, now)
       IN  /\ cli' = [NoCommand EXCEPT !.cmd = "witness", !.exit = 0,
                                       !.usage = ~noBlocks /\ noParty]
           /\ IF ~noBlocks /\ bilateral /\ ~noParty
              THEN /\ witnesses' = (merkleRoot :> Append(loadWitnesses(witnesses, merkleRoot),
                                                         parsedReceipt(receipt))) @@ witnesses
                   /\ saveLog' = Append(saveLog, [root |-> merkleRoot, witness |-> receipt])
              ELSE UNCHANGED << witnesses, saveLog >>
    /\ UNCHANGED << sent, ots, storeVars, mcp, chainVars, verifyVars, tamperVars, merkleVars,
                    divergeVars, upgradeVars, lastVars, apiVars, fileVars >>

(* ------------------------------------------------------------------ *)
(* mcp/server.js: the ten tools                                         *)
(* ------------------------------------------------------------------ *)
MaxMcpAtoms == 3
MaxMcpBlocks == 1

\* the last tool call: its name and the number of atoms it appended
NoToolCall ==
    [tool |-> "none", recorded |-> 0, answer |-> "none", atom_index |-> 0,
     merkle_root |-> JUndefined]

\* what the tools leave alone
toolFrame == << cli, chainVars, verifyVars, tamperVars, merkleVars, divergeVars,
                upgradeVars, lastVars, apiVars, fileVars >>

\* the handler reaches its recordAtom(action, ...) call
toolRecords(tool, action, now) ==
    /\ Len(storeAtoms) < MaxMcpAtoms
    /\ storeAtoms' = recordAtom(storeAtoms, JStr(Lit(<< action >>)), now)
    /\ mcp' = [NoToolCall EXCEPT !.tool = tool, !.recorded = 1]

\* the handler returns on a path without a recordAtom call
toolReturns(tool) ==
    /\ UNCHANGED storeAtoms
    /\ mcp' = [NoToolCall EXCEPT !.tool = tool]

\* saveWitness on the file of any root, present or not
savedTo(ws, merkleRoot, witness) ==
    (merkleRoot :> Append(loadWitnesses(ws, merkleRoot), parsedReceipt(witness))) @@ ws

tool_forge_scan(now) ==
    /\ toolRecords("forge_scan", "forge_scan", now)
    /\ UNCHANGED << storeBlocks, witnessVars, toolFrame >>

tool_forge_log(now) ==
    /\ toolRecords("forge_log", "a", now)
    /\ UNCHANGED << storeBlocks, witnessVars, toolFrame >>

tool_forge_verify(now) ==
    /\ IF Len(storeAtoms) = 0 THEN toolReturns("forge_verify")
       ELSE toolRecords("forge_verify", "forge_verify", now)
    /\ UNCHANGED << storeBlocks, witnessVars, toolFrame >>

tool_forge_seal(t1, t2, now) ==
    /\ Len(storeBlocks) < MaxMcpBlocks
    /\ IF commandSeals(storeAtoms)
       THEN /\ storeBlocks' = Append(storeBlocks, commandBlock(storeAtoms, t1, t2))
            /\ toolRecords("forge_seal", "forge_seal", now)
       ELSE /\ UNCHANGED storeBlocks
            /\ toolReturns("forge_seal")
    /\ UNCHANGED << witnessVars, toolFrame >>

tool_forge_status ==
    /\ toolReturns("forge_status")
    /\ UNCHANGED << storeBlocks, witnessVars, toolFrame >>

\* the text forge_prove answers with: no such atom, no blocks, no tree, the
\* atom is in no sealed block, or a proof
proveAnswer(as, bs, atom_index, now) ==
    IF atom_index >= Len(as) THEN "no_atom"
    ELSE IF Len(bs) = 0 THEN "no_blocks"
    ELSE IF sealReturnsNull(as, <<>>) THEN "no_tree"
    ELSE IF proveAtom(as, << sealedBlock(as, <<>>, now, now) >>, atom_index).isNull
    THEN "not_sealed"
    ELSE "proof"

\* forge_prove: chain.atoms = the stored atoms, chain.blocks = [], chain.seal(),
\* chain.proveAtom(atom_index)
tool_forge_prove(atom_index, now) ==
    /\ IF proveAnswer(storeAtoms, storeBlocks, atom_index, now) = "proof"
       THEN LET proof == proveAtom(storeAtoms,
                                   << sealedBlock(storeAtoms, <<>>, now, now) >>, atom_index)
            IN  /\ Len(storeAtoms) < MaxMcpAtoms
                /\ storeAtoms' = recordAtom(storeAtoms, JStr(Lit(<< "forge_prove" >>)), now)
                /\ mcp' = [tool |-> "forge_prove", recorded |-> 1, answer |-> "proof",
                           atom_index |-> atom_index, merkle_root |-> proof.merkle_root]
       ELSE /\ UNCHANGED storeAtoms
            /\ mcp' = [NoToolCall EXCEPT
                          !.tool = "forge_prove", !.atom_index = atom_index,
                          !.answer = proveAnswer(storeAtoms, storeBlocks, atom_index, now)]
    /\ UNCHANGED << storeBlocks, witnessVars, toolFrame >>

tool_forge_history ==
    /\ toolReturns("forge_history")
    /\ UNCHANGED << storeBlocks, witnessVars, toolFrame >>

tool_forge_export(now) ==
    /\ toolRecords("forge_export", "forge_export", now)
    /\ UNCHANGED << storeBlocks, witnessVars, toolFrame >>

\* forge_anchor: checkOTSUpgrade or submitToOTS on the root of the latest block
tool_forge_anchor(upgrade, nonce, outcomes, answers, now) ==
    /\ ots.phase = "idle"
    /\ IF Len(storeBlocks) = 0
       THEN /\ toolReturns("forge_anchor")
            /\ UNCHANGED << witnesses, saveLog, sent >>
       ELSE LET merkleRoot == storeBlocks[Len(storeBlocks)].root
                list == loadWitnesses(witnesses, merkleRoot)
                p == firstPending(list)
                upgraded == IF p = 0 THEN <<>>
                            ELSE upgradedFrom(list[p].calendars, answers, 1)
                anchorWitness ==
                    [NoReceipt EXCEPT !.type = "ots_confirmed", !.level = 4,
                                      !.original_hash = merkleRoot,
                                      !.bitcoin_attestations = upgraded]
                results == settledInOrder(outcomes, 1, "submitted")
                errors == settledInOrder(outcomes, 1, "error")
                receipt == otsReceipt(merkleRoot, nonce, results, errors)
                saved == IF upgrade
                         THEN (IF Len(upgraded) > 0 THEN << anchorWitness >> ELSE <<>>)
                         ELSE (IF Len(results) > 0 THEN << receipt >> ELSE <<>>)
            IN  /\ Len(saveLog) + Len(saved) <= MaxSaves
                /\ sent' = sent \cup
                      IF upgrade
                      THEN (IF p = 0 THEN {}
                            ELSE LET requests == upgradeRequestsFrom(list[p].calendars,
                                                                     list[p].digest, 1)
                                 IN  { requests[i] : i \in 1..Len(requests) })
                      ELSE { postRequest(OTS_CALENDARS[k], nonce, merkleRoot) :
                                k \in 1..Len(OTS_CALENDARS) }
                /\ witnesses' = IF saved = <<>> THEN witnesses
                                ELSE savedTo(witnesses, merkleRoot, saved[1])
                /\ saveLog' = saveLog \o [i \in 1..Len(saved) |->
                                             [root |-> merkleRoot, witness |-> saved[i]]]
                /\ toolRecords("forge_anchor",
                               IF upgrade THEN "forge_anchor_upgrade_check"
                               ELSE "forge_anchor", now)
    /\ UNCHANGED << storeBlocks, ots, toolFrame >>

\* forge_witness: a bilateral receipt when a party is given, else the summary
tool_forge_witness(bilateral_party, now) ==
    /\ IF Len(storeBlocks) = 0 \/ bilateral_party.s = <<>>
       THEN /\ toolReturns("forge_witness")
            /\ UNCHANGED << witnesses, saveLog >>
       ELSE LET merkleRoot == storeBlocks[Len(storeBlocks)].root
                receipt == bilateralReceipt(merkleRoot, bilateral_party, now)
            IN  /\ Len(saveLog) < MaxSaves
                /\ witnesses' = savedTo(witnesses, merkleRoot, receipt)
                /\ saveLog' = Append(saveLog, [root |-> merkleRoot, witness |-> receipt])
                /\ toolRecords("forge_witness", "forge_witness_bilateral", now)
    /\ UNCHANGED << storeBlocks, sent, ots, toolFrame >>

\* no command and no tool run
ToolIdle ==
    /\ cli = NoCommand
    /\ mcp = NoToolCall

(* ------------------------------------------------------------------ *)
(* trust-pixel.js: hash of an object                                    *)
(* ------------------------------------------------------------------ *)
Key(c) == Lit(<< c >>)
Prop(c, val) == [key |-> Key(c), val |-> val]

\* objects with the same properties in two orders, objects that differ in a
\* nested value, in a nested name, or only at the second level, a nested
\* object whose name is also a top-level name, and state snapshots
ObjectInputs ==
    { JObj(<< Prop("a", JNum(1)), Prop("b", JNum(2)) >>),
      JObj(<< Prop("b", JNum(2)), Prop("a", JNum(1)) >>),
      JObj(<< Prop("a", JNum(1)), Prop("b", JNum(3)) >>),
      JObj(<< Prop("s", JObj(<< Prop("x", JNum(1)) >>)) >>),
      JObj(<< Prop("s", JObj(<< Prop("x", JNum(2)) >>)) >>),
      JObj(<< Prop("s", JObj(<< Prop("y", JNum(1)) >>)) >>),
      JObj(<< Prop("s", JObj(<< Prop("s", JNum(1)) >>)) >>),
      JObj(<< Prop("s", JObj(<< Prop("s", JNum(2)) >>)) >>),
      JObj(<< Prop("t", JStr(Lit(<<"k">>))),
              Prop("s", JObj(<< Prop("c", JNum(1)), Prop("a", JNum(0)) >>)) >>),
      JObj(<< Prop("s", JObj(<< Prop("a", JNum(0)), Prop("c", JNum(1)) >>)),
              Prop("t", JStr(Lit(<<"k">>))) >>),
      JObj(<<>>) }

HashIdle == hobj = <<>> /\ hres = <<>>

\* hash(a) and hash(b) for the two objects given
hashCall ==
    /\ hobj # <<>>
    /\ hres = <<>>
    /\ hres' = << hash(hobj[1]), hash(hobj[2]) >>
    /\ UNCHANGED << hobj, multiVars, signedVars, chainVars, verifyVars, tamperVars,
                    merkleVars, storeVars, divergeVars, witnessVars, upgradeVars,
                    apiVars, fileVars, toolVars >>

\* no second process
MultiIdle == store2 = NoStore

\* a second process (a forge command beside the running server) constructs
\* its Store on the same path
newStore2 ==
    /\ ~store2.open
    /\ store2' = [open |-> TRUE, data |-> _load(chainFile).data,
                  actions |-> _loadActions(actionsFile).data]
    /\ UNCHANGED << hashVars, signedVars, chainVars, verifyVars, tamperVars, merkleVars,
                    storeVars, divergeVars, witnessVars, upgradeVars, apiVars,
                    fileVars, toolVars >>

\* the second process ends
exitProcess2 ==
    /\ store2.open
    /\ store2' = NoStore
    /\ UNCHANGED << hashVars, signedVars, chainVars, verifyVars, tamperVars, merkleVars,
                    storeVars, divergeVars, witnessVars, upgradeVars, apiVars,
                    fileVars, toolVars >>

\* appendAtom through the Store of the second process: push on its _data, _save
appendAtomCall2(atom) ==
    /\ store2.open
    /\ store2.data.valid
    /\ Len(store2.data.atoms) < MaxApiAtoms
    /\ store2' = [store2 EXCEPT !.data = appendAtom(store2.data, atom).data]
    /\ chainFile' = jsonFile(appendAtom(store2.data, atom).data)
    /\ UNCHANGED << actionsFile, store, sret, hashVars, signedVars, chainVars, verifyVars,
                    tamperVars, merkleVars, storeVars, divergeVars, witnessVars,
                    upgradeVars, fileVars, toolVars >>

(* ------------------------------------------------------------------ *)
(* trust-atom.js with signatures, keys.js                               *)
(* ------------------------------------------------------------------ *)
MaxSigned == 2

\* key pairs by name: the machine's own, one imported as trusted, one unknown
KeyOwn == "own"
KeyTrusted == "trusted"
KeyOther == "other"

\* getFingerprint(publicKeyPem): "forge:ed25519:" and 16 digits of its digest
getFingerprint(publicKeyPem) ==
    JStr(Lit(<<"forge:ed25519:">>) \o << [k |-> "fp", c |-> publicKeyPem, s |-> <<>>] >>)

\* signData(data, privateKeyPem): the Ed25519 signature, base64
signData(data, privateKeyPem) ==
    JStr(<< [k |-> "sig", c |-> privateKeyPem, s |-> data.s] >>)

\* verifySignature(data, signatureBase64, publicKeyPem)
verifySignature(data, signatureBase64, publicKeyPem) ==
    signatureBase64 = signData(data, publicKeyPem)

\* !v
Falsy(v) == v.ty \in {"undefined", "null"} \/ (v.ty = "string" /\ v.s = <<>>)

\* the machine: whether ~/.forge/keys holds the own key pair, and whether the
\* build defines require inside the module (Node's ES modules do not)
NoKeys == [own |-> FALSE, require |-> FALSE]
Machines == [own : BOOLEAN, require : BOOLEAN]

\* the keys imported as trusted
TrustedKeys == { KeyTrusted }

\* the result of verifyAtomSignature; threw: require is not defined
SigThrew == [threw |-> TRUE, valid |-> FALSE, reason |-> "ReferenceError"]
SigRejected(why) == [threw |-> FALSE, valid |-> FALSE, reason |-> why]
SigAccepted == [threw |-> FALSE, valid |-> TRUE, reason |-> "undefined"]

\* the end of verifyAtomSignature once publicKey is set
verifyWithKey(atom, publicKey) ==
    IF getFingerprint(publicKey) # atom.signer THEN SigRejected("fingerprint_mismatch")
    ELSE IF ~verifySignature(atom.proof, atom.signature, publicKey)
    THEN SigRejected("invalid_signature")
    ELSE SigAccepted

\* verifyAtomSignature(atom) without a publicKey argument: loadKeys(), then
\* require("./keys.js").getTrustedKey(atom.signer)
verifyAtomSignature(atom, machine) ==
    IF Falsy(atom.signature) \/ Falsy(atom.signer) THEN SigRejected("unsigned")
    ELSE IF machine.own /\ getFingerprint(KeyOwn) = atom.signer
    THEN verifyWithKey(atom, KeyOwn)
    ELSE IF ~machine.require THEN SigThrew
    ELSE IF \E key \in TrustedKeys : getFingerprint(key) = atom.signer
    THEN verifyWithKey(atom, CHOOSE key \in TrustedKeys : getFingerprint(key) = atom.signer)
    ELSE SigRejected("unknown_signer")

\* `signature_${sigResult.reason}`
SignatureReason(cause) ==
    CASE cause = "unsigned" -> "signature_unsigned"
      [] cause = "unknown_signer" -> "signature_unknown_signer"
      [] cause = "fingerprint_mismatch" -> "signature_fingerprint_mismatch"
      [] OTHER -> "signature_invalid_signature"

\* the result of the signed verifyChain
SignedResult(thrown, valid, broken_at, reason, signatures) ==
    [thrown |-> thrown, valid |-> valid, broken_at |-> broken_at, reason |-> reason,
     signatures |-> signatures]

SignedNotRun == SignedResult(FALSE, FALSE, -2, "not_run", <<>>)

\* one entry of signatures: { index, ...sigResult }
SigEntry(i, r) == [index |-> i, valid |-> r.valid, reason |-> r.reason]

\* the for loop of the signed verifyChain from position i (1-based), sigs the
\* signatureResults pushed so far
RECURSIVE verifySignedFrom(_, _, _, _, _)
verifySignedFrom(as, i, requireSignature, machine, sigs) ==
    IF i > Len(as) THEN SignedResult(FALSE, TRUE, -1, NoReason, sigs)
    ELSE IF verifyAtomThrows(as[i]) THEN SignedResult(TRUE, FALSE, -1, "TypeError", sigs)
    ELSE IF ~verifyAtom(as[i]) THEN SignedResult(FALSE, FALSE, i - 1, "proof_mismatch", sigs)
    ELSE IF i > 1 /\ ~PrevIncludes(as[i].prev, as[i - 1].proof)
    THEN SignedResult(FALSE, FALSE, i - 1, "chain_break", sigs)
    ELSE IF i > 1 /\ Less(as[i].when, as[i - 1].when)
    THEN SignedResult(FALSE, FALSE, i - 1, "time_reversal", sigs)
    ELSE IF ~Falsy(as[i].signature)
    THEN IF verifyAtomSignature(as[i], machine).threw
         THEN SignedResult(TRUE, FALSE, -1, "ReferenceError", sigs)
         ELSE IF ~verifyAtomSignature(as[i], machine).valid /\ requireSignature
         THEN SignedResult(FALSE, FALSE, i - 1,
                           SignatureReason(verifyAtomSignature(as[i], machine).reason),
                           Append(sigs, SigEntry(i - 1, verifyAtomSignature(as[i], machine))))
         ELSE verifySignedFrom(as, i + 1, requireSignature, machine,
                               Append(sigs, SigEntry(i - 1, verifyAtomSignature(as[i], machine))))
    ELSE IF requireSignature
    THEN SignedResult(FALSE, FALSE, i - 1, "unsigned",
                      Append(sigs, SigEntry(i - 1, SigRejected("unsigned"))))
    ELSE verifySignedFrom(as, i + 1, requireSignature, machine, sigs)

\* verifyChain(atoms, { requireSignature }) of the signed module
verifyChainSigned(as, requireSignature, machine) ==
    IF Len(as) = 0 THEN SignedResult(FALSE, TRUE, -1, NoReason, <<>>)
    ELSE verifySignedFrom(as, 1, requireSignature, machine, <<>>)

\* an atom given to the signed verifier
signedAtom(when, prevArr, proof, signature, signer) ==
    [who |-> hash(Identity), from |-> hash(JStr(Lit(<<"0">>))), action |-> ActionA,
     to |-> hash(JStr(Lit(<<"1">>))), when |-> when, prev |-> JArr(prevArr),
     proof |-> proof, signature |-> signature, signer |-> signer]

\* the proof createAtom computes for these fields
signedProof(when, prevArr) ==
    hashMany(ProofParts(hash(Identity), hash(JStr(Lit(<<"0">>))), ActionA,
                        hash(JStr(Lit(<<"1">>))), when, prevArr))

\* when, prev and proof of the next atom: linked and later, linked and
\* earlier, with a proof of something else, not linked
SignedBases(prefix) ==
    LET link == IF Len(prefix) = 0 THEN << Genesis >> ELSE << prefix[Len(prefix)].proof >>
    IN  { [when |-> JNum(1), prev |-> link, proof |-> signedProof(JNum(1), link)],
          [when |-> JNum(0), prev |-> link, proof |-> signedProof(JNum(0), link)],
          [when |-> JNum(1), prev |-> link, proof |-> WrongProof],
          [when |-> JNum(1), prev |-> << WrongProof >>,
           proof |-> signedProof(JNum(1), << WrongProof >>)] }

\* signature and signer of an atom with the given proof: none; createSignedAtom
\* with the own, the trusted or an unknown key pair; another key's signature
\* under the own fingerprint; a signature without signer
SignatureFields(proof) ==
    { [signature |-> JUndefined, signer |-> JUndefined],
      [signature |-> signData(proof, KeyOwn), signer |-> getFingerprint(KeyOwn)],
      [signature |-> signData(proof, KeyTrusted), signer |-> getFingerprint(KeyTrusted)],
      [signature |-> signData(proof, KeyOther), signer |-> getFingerprint(KeyOther)],
      [signature |-> signData(proof, KeyOther), signer |-> getFingerprint(KeyOwn)],
      [signature |-> signData(proof, KeyOwn), signer |-> JUndefined] }

SignedInputs(prefix) ==
    UNION { { signedAtom(b.when, b.prev, b.proof, f.signature, f.signer) :
                  f \in SignatureFields(b.proof) } : b \in SignedBases(prefix) }

\* the caller extends the sequence it will verify
pushSignedAtom(a) ==
    /\ Len(satoms) < MaxSigned
    /\ satoms' = Append(satoms, a)
    /\ sres' = SignedNotRun
    /\ UNCHANGED << sreq, skeys, hashVars, multiVars, chainVars, verifyVars, tamperVars,
                    merkleVars, storeVars, divergeVars, witnessVars, upgradeVars,
                    apiVars, fileVars, toolVars >>

\* result = verifyChain(atoms, { requireSignature })
runVerifySigned ==
    /\ sres = SignedNotRun
    /\ sres' = verifyChainSigned(satoms, sreq, skeys)
    /\ UNCHANGED << satoms, sreq, skeys, hashVars, multiVars, chainVars, verifyVars,
                    tamperVars, merkleVars, storeVars, divergeVars, witnessVars,
                    upgradeVars, apiVars, fileVars, toolVars >>

\* nothing given to the signed verifier
SignedIdle == satoms = <<>> /\ sreq = FALSE /\ skeys = NoKeys /\ sres = SignedNotRun

\* the variables of the sections up to the MCP tools before any of their calls
MiddleIdle ==
    /\ StoreInit /\ DivergeInit /\ WitnessInit /\ UpgradeInit /\ ApiIdle
    /\ FileIdle /\ ToolIdle

LastIdle == HashIdle /\ MultiIdle /\ SignedIdle

\* the variables of the later sections before any of their calls
LaterIdle == MiddleIdle /\ LastIdle

(* ------------------------------------------------------------------ *)
(* Specifications                                                       *)
(* ------------------------------------------------------------------ *)
Init == ChainInit /\ VerifyInit /\ TamperInit /\ MerkleIdle /\ LaterIdle

Next ==
    \/ \E op \in Operations, now \in Clock : record(op, now)
    \/ \E t1 \in Clock, t2 \in Clock : seal(t1, t2)

Spec == Init /\ [][Next]_vars

NextVerify ==
    \/ \E a \in InputAtoms(vatoms) : pushAtom(a)
    \/ runVerifyChain
    \/ \E k \in 0..(MaxChain - 1), h \in OtherActions : replaceAction(k, h)

SpecVerify == Init /\ [][NextVerify]_vars

NextTamper ==
    \/ \E prev \in CreatePrevs(tatoms), now \in Clock : createAtomCall(prev, now)
    \/ \E k \in 0..(Len(tatoms) - 1), field \in AtomFields :
          \E v \in ChangedValues(tatoms[k + 1], field) : changeField(k, field, v)
    \/ \E k \in 0..(MaxTamper - 1) : verifyAtomCall(k)
    \/ verifyChainCall

SpecTamper == Init /\ [][NextTamper]_vars

InitMerkle ==
    /\ ChainInit /\ VerifyInit /\ TamperInit /\ LaterIdle
    /\ leaves \in LeafLists(MaxLeaves)
    /\ tree = NoTree /\ mproof = NoProof /\ mok = NoLeafResult
    /\ leavesB = <<>> /\ treeB = NoTree

NextMerkle ==
    \/ buildTree
    \/ \E i \in 0..(MaxLeaves - 1) : proveLeaf(i)
    \/ \E x \in VerifiedLeaves : verifyLeaf(x)

SpecMerkle == InitMerkle /\ [][NextMerkle]_vars

InitMerklePair ==
    /\ ChainInit /\ VerifyInit /\ TamperInit /\ LaterIdle
    /\ leaves \in LeafLists(MaxPairLeaves)
    /\ leavesB \in LeafLists(MaxPairLeaves)
    /\ tree = NoTree /\ mproof = NoProof /\ mok = NoLeafResult
    /\ treeB = NoTree

NextMerklePair == buildTree \/ buildTreeB

SpecMerklePair == InitMerklePair /\ [][NextMerklePair]_vars

(* ------------------------------------------------------------------ *)
(* Claims on TrustChain (specification Spec)                            *)
(* ------------------------------------------------------------------ *)
\* C1: after any sequence of record calls, whatever the wall clock returned
\* at each call, chain.verify() returns valid = true with broken_at = -1.
C1_RecordedChainVerifies == verifyChain(atoms) = ChainValid

\* the proofs of the atoms at the 0-based indices start..end
RangeProofs(start, end) == [i \in 1..(end - start + 1) |-> atoms[start + i].proof]

\* C9: the blocks' atom_range values partition a prefix of the atoms: block 0
\* starts at 0, each later block starts right after the previous block's end,
\* start <= end < atoms.length, atom_count = end - start + 1, and root is the
\* Merkle root of the proofs of exactly the atoms of the range, in chain order.
C9_BlocksPartitionPrefix ==
    \A k \in 1..Len(blocks) :
        LET start == blocks[k].atom_range[1]
            end == blocks[k].atom_range[2]
        IN  /\ start = (IF k = 1 THEN 0 ELSE blocks[k - 1].atom_range[2] + 1)
            /\ start <= end
            /\ end < Len(atoms)
            /\ blocks[k].atom_count = end - start + 1
            /\ blocks[k].root = buildMerkleTree(RangeProofs(start, end)).root

\* C9 witness: two blocks, the second over several atoms
C9_Witness ==
    /\ Len(blocks) = 2
    /\ blocks[2].atom_count >= 2
    /\ blocks[2].atom_range[1] > 0

\* C10: blocks[0].prev_block = "genesis" and every later block's prev_block is
\* the block_hash of the block before it.
C10_BlocksLinked ==
    \A k \in 1..Len(blocks) :
        blocks[k].prev_block = (IF k = 1 THEN Genesis ELSE blocks[k - 1].block_hash)

\* C10 witness: a second block has been sealed on top of a first one
C10_Witness == Len(blocks) >= 2 /\ blocks[2].prev_block # Genesis

(* ------------------------------------------------------------------ *)
(* Claims on verifyChain (specification SpecVerify)                     *)
(* ------------------------------------------------------------------ *)
\* C2: in a chain accepted by verifyChain, replacing the action field of the
\* atom at index k by a different hash makes verifyChain return valid = false,
\* broken_at = k and reason proof_mismatch.
C2_ReplacedActionBreaksAtK ==
    (vmut >= 0 /\ vbase = ChainValid /\ vres # NotRun)
        => vres = ChainBroken(vmut, "proof_mismatch")

\* C2 witness: an accepted chain of three atoms, its middle action replaced,
\* verified again
C2_Witness ==
    /\ Len(vatoms) = 3
    /\ vmut = 1
    /\ vbase = ChainValid
    /\ vres = ChainBroken(1, "proof_mismatch")

\* the three checks of the contract on the atom at 1-based position i
CheckProofMismatch(i) == ~verifyAtom(vatoms[i])

CheckChainBreak(i) ==
    i > 1 /\ \A j \in 1..Len(vatoms[i].prev.a) : vatoms[i].prev.a[j] # vatoms[i - 1].proof

CheckTimeReversal(i) == i > 1 /\ vatoms[i].when.n < vatoms[i - 1].when.n

CheckFails(i) == CheckProofMismatch(i) \/ CheckChainBreak(i) \/ CheckTimeReversal(i)

\* the result the contract prescribes for vatoms
ContractResult ==
    IF \A i \in 1..Len(vatoms) : ~CheckFails(i) THEN ChainValid
    ELSE LET i == CHOOSE m \in 1..Len(vatoms) :
                      CheckFails(m) /\ \A l \in 1..(m - 1) : ~CheckFails(l)
         IN  ChainBroken(i - 1,
                         IF CheckProofMismatch(i) THEN "proof_mismatch"
                         ELSE IF CheckChainBreak(i) THEN "chain_break"
                         ELSE "time_reversal")

\* C4: verifyChain returns valid with broken_at = -1 for the empty sequence and
\* when no check fails; otherwise broken_at is the least index with a failing
\* check and reason the first failing check there in the order proof_mismatch,
\* chain_break, time_reversal; equal timestamps pass.
C4_VerifyChainContract == vres # NotRun => vres = ContractResult

\* C4 witness: three atoms, the first two with equal timestamps and accepted,
\* the third linked but earlier than the second
C4_Witness ==
    /\ Len(vatoms) = 3
    /\ vatoms[1].when = vatoms[2].when
    /\ ~CheckChainBreak(3)
    /\ vres = ChainBroken(2, "time_reversal")

(* ------------------------------------------------------------------ *)
(* Claims on createAtom / verifyAtom (specification SpecTamper)         *)
(* ------------------------------------------------------------------ *)
\* C3: verifyAtom is true for every atom returned by createAtom, and is not
\* true once exactly one of who, from, action, to, when or prev has been
\* changed to a different value while proof is kept (a call that ends in a
\* TypeError is counted here as a detection, so that only an accepted change
\* refutes the claim).
C3_OneChangedFieldDetected ==
    tva.idx >= 0 =>
        (IF tmut.idx = tva.idx THEN tva.res # "true" ELSE tva.res = "true")

\* C5: chain verification never throws: for every sequence of atom records,
\* tampered ones with a missing, null or wrongly typed prev or when included,
\* verifyChain returns a structured result.
C5_VerifyChainNeverThrows == ~tvc.thrown

(* ------------------------------------------------------------------ *)
(* Claims on the Merkle functions (SpecMerkle, SpecMerklePair)          *)
(* ------------------------------------------------------------------ *)
\* C6: for every leaf list L with |L| >= 1 and every index i in [0, |L|),
\* verifyMerkleProof(L[i], getMerkleProof(layers, i), root) returns true.
C6_ProofOfLeafVerifies ==
    (mok.run /\ mok.leaf = leaves[mproof.idx + 1]) => mok.res

\* C6 witness: five leaves, the last one (self-paired on two layers) proved
\* and verified
C6_Witness ==
    /\ Len(leaves) = 5
    /\ mproof.idx = 4
    /\ mok.run /\ mok.leaf = leaves[5] /\ mok.res

\* C7: for every leaf list L, index i and hash x different from L[i],
\* verifyMerkleProof(x, getMerkleProof(layers, i), root) returns false.
C7_OtherLeafRejected ==
    (mok.run /\ mok.leaf # leaves[mproof.idx + 1]) => ~mok.res

\* C7 witness: another leaf of the same tree rejected at a self-paired position
C7_Witness ==
    /\ Len(leaves) = 3
    /\ mproof.idx = 2
    /\ mok.run /\ mok.leaf = leaves[1] /\ mok.leaf # leaves[3] /\ ~mok.res

\* C8: any two distinct non-empty leaf sequences, of equal or different
\* length, get different roots from buildMerkleTree.
C8_DistinctLeavesDistinctRoots ==
    (/\ tree # NoTree /\ treeB # NoTree
     /\ Len(leaves) >= 1 /\ Len(leavesB) >= 1
     /\ leaves # leavesB)
        => tree.root # treeB.root

(* ------------------------------------------------------------------ *)
(* Log and seal commands against one store                              *)
(* ------------------------------------------------------------------ *)
NextStore ==
    \/ \E now \in Clock : cmdLog(now)
    \/ \E now \in Clock : forge_log(now)
    \/ \E t1 \in Clock, t2 \in Clock : cmdSeal(t1, t2)
    \/ \E t1 \in Clock, t2 \in Clock, now \in Clock : forge_seal(t1, t2, now)

SpecStore == Init /\ [][NextStore]_vars

\* C11: the blocks persisted in the store follow suffix-only sealing: the
\* first stored block starts at atom 0 and links to genesis, every later
\* stored block starts right after the previous stored block's range ends
\* and carries the previous stored block's block_hash as prev_block, so that
\* the stored ranges are pairwise disjoint
C11_StoredBlocksSuffixOnly ==
    \A k \in 1..Len(storeBlocks) :
        /\ storeBlocks[k].atom_range[1] =
               (IF k = 1 THEN 0 ELSE storeBlocks[k - 1].atom_range[2] + 1)
        /\ storeBlocks[k].atom_range[1] <= storeBlocks[k].atom_range[2]
        /\ storeBlocks[k].prev_block =
               (IF k = 1 THEN Genesis ELSE storeBlocks[k - 1].block_hash)

\* C12: every block of the chain has block_hash = hash(root + prev_block +
\* created_at), created_at being the value stored in the same block, whatever
\* the wall clock returned at createBlock's reads
C12_BlockHashOfStoredCreatedAt ==
    \A k \in 1..Len(blocks) :
        blocks[k].block_hash =
            hash(Plus(Plus(blocks[k].root, blocks[k].prev_block), JNum(blocks[k].created_at)))

\* C13: for every index i, proveAtom(i) is null exactly when no block's
\* atom_range holds i (unsealed, negative or past the end); otherwise it
\* returns atoms[i], the root and block_hash of the block whose range holds i,
\* and a merkle_proof with which verifyProof accepts atoms[i].proof under that root
C13_ProveAtomContract ==
    \A i \in ProveIndices :
        LET r == proveAtom(atoms, blocks, i)
            sealedIn == { k \in 1..Len(blocks) :
                            blocks[k].atom_range[1] <= i /\ i <= blocks[k].atom_range[2] }
        IN  IF sealedIn = {} THEN r.isNull
            ELSE /\ ~r.isNull
                 /\ i >= 0 /\ i < Len(atoms)
                 /\ r.atom = atoms[i + 1]
                 /\ \E k \in sealedIn : /\ r.merkle_root = blocks[k].root
                                         /\ r.block_hash = blocks[k].block_hash
                 /\ verifyProof(atoms[i + 1].proof, r.merkle_proof, r.merkle_root)

\* two blocks, the second over atoms 1..2: atom 2 is proved at local index 1
\* with a one-step path, atom 0 with an empty path, and the indices outside
\* every block are answered with null
C13_Witness ==
    /\ Len(blocks) = 2 /\ Len(atoms) = 3
    /\ blocks[2].atom_range = << 1, 2 >>
    /\ ~proveAtom(atoms, blocks, 2).isNull
    /\ Len(proveAtom(atoms, blocks, 2).merkle_proof) = 1
    /\ ~proveAtom(atoms, blocks, 0).isNull
    /\ proveAtom(atoms, blocks, -1).isNull
    /\ proveAtom(atoms, blocks, Len(atoms)).isNull

(* ------------------------------------------------------------------ *)
(* findDivergence on two recorded chains                                *)
(* ------------------------------------------------------------------ *)
NextDiverge ==
    \/ \E op \in DivergeOperations, now \in Clock : recordA(op, now)
    \/ \E op \in DivergeOperations, now \in Clock : recordB(op, now)
    \/ findDivergenceCall

SpecDiverge == Init /\ [][NextDiverge]_vars

\* the indices below both lengths at which the (action, from, to) triples differ
TripleDiffs ==
    { i \in 0..(MaxDivAtoms - 1) :
        /\ i < Len(chainA) /\ i < Len(chainB)
        /\ << chainA[i + 1].action, chainA[i + 1].from, chainA[i + 1].to >> #
           << chainB[i + 1].action, chainB[i + 1].from, chainB[i + 1].to >> }

\* C14: findDivergence(A, B) has diverged = false iff A and B have the same
\* length and the same (action, from, to) at every index, findDivergence(A, A)
\* being such a case; when some triple differs, at_index is the least such
\* index and action_match, state_match tell which comparison held there; when
\* none differs but the lengths do, at_index = min(|A|, |B|) and reason =
\* length_mismatch
C14_FindDivergenceContract ==
    /\ ~findDivergence(chainA, chainA).diverged
    /\ dres # DivergeNotRun =>
        LET minLen == IF Len(chainA) < Len(chainB) THEN Len(chainA) ELSE Len(chainB)
        IN  IF TripleDiffs # {}
            THEN LET k == CHOOSE i \in TripleDiffs : \A j \in TripleDiffs : i <= j
                 IN  /\ dres.diverged /\ dres.at_index = k
                     /\ dres.reason = "undefined"
                     /\ dres.action_match = BoolText(chainA[k + 1].action = chainB[k + 1].action)
                     /\ dres.state_match = BoolText(chainA[k + 1].from = chainB[k + 1].from
                                                    /\ chainA[k + 1].to = chainB[k + 1].to)
            ELSE IF Len(chainA) # Len(chainB)
            THEN dres.diverged /\ dres.at_index = minLen /\ dres.reason = "length_mismatch"
            ELSE ~dres.diverged

\* chains that agree at index 0 and differ at index 1 in the end state only
C14_Witness ==
    /\ dres # DivergeNotRun
    /\ Len(chainA) = 2 /\ Len(chainB) = 2
    /\ dres.diverged /\ dres.at_index = 1
    /\ dres.action_match = "true" /\ dres.state_match = "false"

\* the verdict of a result: diverged, at_index, reason, action_match, state_match
Verdict(r) == << r.diverged, r.at_index, r.reason, r.action_match, r.state_match >>

\* the chain with who, when, prev and proof of every atom set to fixed values
Stripped(chain) ==
    [i \in 1..Len(chain) |->
        [chain[i] EXCEPT !.who = JUndefined, !.when = JUndefined,
                         !.prev = JUndefined, !.proof = JUndefined]]

\* C15: the verdict of findDivergence on two chains is the verdict on the
\* same chains with every who, when, prev and proof replaced by one fixed
\* value, so two pairs of chains that differ only in those fields get the
\* same verdict
C15_VerdictIgnoresOtherFields ==
    dres # DivergeNotRun =>
        Verdict(dres) = Verdict(findDivergence(Stripped(chainA), Stripped(chainB)))

\* two parties recorded the same operations at different times and the
\* detector reports no divergence
C15_Witness ==
    /\ dres # DivergeNotRun
    /\ Len(chainA) = 2 /\ Len(chainB) = 2
    /\ \E i \in 1..2 : chainA[i].when # chainB[i].when
    /\ \A i \in 1..2 : chainA[i].proof # chainB[i].proof
    /\ ~dres.diverged

(* ------------------------------------------------------------------ *)
(* Calls to the witness module on one machine                           *)
(* ------------------------------------------------------------------ *)
NextWitness ==
    \/ \E root \in {RootA, RootB}, w \in GivenReceipts : saveWitnessCall(root, w)
    \/ \E root \in {RootA, RootB}, c \in Counterparties, now \in Clock :
          createBilateralWitness(root, c, now)
    \/ \E h \in {RootA, RootB}, nonce \in {NonceOne},
          outcomes \in [1..Len(OTS_CALENDARS) -> {"2xx", "timeout"}] :
          submitToOTS(h, nonce, outcomes)
    \/ \E root \in {RootA, RootB},
          outcomes \in [1..Len(OTS_CALENDARS) -> UpgradeOutcomes] :
          checkOTSUpgrade(root, outcomes)

SpecWitness == Init /\ [][NextWitness]_vars

(* ------------------------------------------------------------------ *)
(* One submitToOTS call with its concurrent requests                    *)
(* ------------------------------------------------------------------ *)
NextOTS ==
    \/ \E h \in HashInputs, nonce \in Nonces : submitStart(h, nonce)
    \/ \E k \in 1..Len(OTS_CALENDARS), outcome \in SubmitOutcomes : settle(k, outcome)
    \/ submitFinish

SpecOTS == Init /\ [][NextOTS]_vars

\* the greatest level among the receipts stored for a root, 1 when none is stored
MaxStoredLevel(root) ==
    LET list == loadWitnesses(witnesses, root)
        levels == { list[i].level : i \in 1..Len(list) }
    IN  IF levels = {} THEN 1 ELSE CHOOSE l \in levels : \A m \in levels : m <= l

\* C16: in every state reached by saveWitness, createBilateralWitness,
\* submitToOTS and checkOTSUpgrade calls, witnessLevel(root).level is the
\* greatest level among the receipts stored for root (1 when there is none),
\* it is 4 as soon as a level-4 receipt is stored, and no step lowers it
C16_LevelIsMaxAndNeverDrops ==
    /\ [](\A root \in WitnessRoots :
            /\ witnessLevel(witnesses, root).level = MaxStoredLevel(root)
            /\ (\E i \in 1..Len(witnesses[root]) : witnesses[root][i].level = 4)
                  => witnessLevel(witnesses, root).level = 4)
    /\ [][\A root \in WitnessRoots :
            witnessLevel(witnesses', root).level >= witnessLevel(witnesses, root).level]_vars

\* a level-4 receipt followed by a bilateral one: the level reported is 4
C16_Witness ==
    /\ Len(witnesses[RootA]) = 2
    /\ witnesses[RootA][1].level = 4
    /\ witnesses[RootA][2].level = 2
    /\ witnessLevel(witnesses, RootA).level = 4
    /\ witnessLevel(witnesses, RootB).level = 1

\* the receipts handed to saveWitness for a root so far, in call order
SavedFor(root) ==
    LET calls == SelectSeq(saveLog, LAMBDA e : e.root = root)
    IN  [i \in 1..Len(calls) |-> calls[i].witness]

\* a root no receipt is ever saved for
UnknownRoot == hash(JStr(Lit(<<"z">>)))

\* C17: loadWitnesses(root) is the list of the receipts handed to saveWitness
\* for that root, in call order: saves under other roots leave it as it was
\* and it is empty for a root never saved
C17_LoadReturnsSavedInOrder ==
    /\ \A root \in WitnessRoots : loadWitnesses(witnesses, root) = SavedFor(root)
    /\ loadWitnesses(witnesses, UnknownRoot) = <<>>

\* a save under one root, then a save under another: each list holds its own receipt
C17_Witness ==
    /\ Len(saveLog) = 2
    /\ saveLog[1].root = RootB /\ saveLog[2].root = RootA
    /\ loadWitnesses(witnesses, RootB) = << saveLog[1].witness >>
    /\ loadWitnesses(witnesses, RootA) = << saveLog[2].witness >>
    /\ saveLog[1].witness # saveLog[2].witness

\* exactly 64 hexadecimal characters
IsHex64(hashHex) ==
    /\ hashHex.ty = "string"
    /\ TextLength(hashHex.s) = HexLength
    /\ IsHexText(hashHex.s)

\* C18: a submitToOTS call whose argument is not exactly 64 hexadecimal
\* characters ends in the invalid-hash error, with no request sent and no
\* receipt stored
C18_InvalidHashRejected ==
    (ots.phase # "idle" /\ ~IsHex64(ots.hashHex)) =>
        /\ ots.phase = "thrown"
        /\ sent = {}
        /\ \A root \in WitnessRoots : witnesses[root] = <<>>

\* the entries of a receipt with status submitted
SubmittedEntries(receipt) ==
    { i \in 1..Len(receipt.calendars) : receipt.calendars[i].status = "submitted" }

\* C19: whatever the outcome of each request and the order in which they
\* settle, the receipt exists only once every request has settled, it holds
\* exactly one entry per configured calendar, successful_submissions counts
\* the entries with status submitted, level is 3 iff that count is at least
\* 1 (else 1), and the receipt is stored under original_hash iff that count
\* is at least 1 (nothing is stored while requests are in flight)
C19_ReceiptAfterAllSettled ==
    /\ ots.phase = "waiting" => \A root \in WitnessRoots : witnesses[root] = <<>>
    /\ ots.phase = "returned" =>
        LET r == ots.receipt
            n == Cardinality(SubmittedEntries(r))
        IN  /\ ots.pending = {}
            /\ Len(r.calendars) = Len(OTS_CALENDARS)
            /\ \A k \in 1..Len(OTS_CALENDARS) :
                  Cardinality({ i \in 1..Len(r.calendars) :
                                  r.calendars[i].calendar = OTS_CALENDARS[k] }) = 1
            /\ r.successful_submissions = n
            /\ r.level = (IF n >= 1 THEN 3 ELSE 1)
            /\ r.original_hash = ots.hashHex
            /\ witnesses[ots.hashHex] = (IF n >= 1 THEN << r >> ELSE <<>>)
            /\ \A root \in WitnessRoots \ {ots.hashHex} : witnesses[root] = <<>>

\* the third calendar answered first, then the first, and the second timed out
C19_Witness ==
    /\ ots.phase = "returned"
    /\ ots.receipt.calendars[1].calendar = OTS_CALENDARS[3]
    /\ ots.receipt.calendars[2].calendar = OTS_CALENDARS[1]
    /\ ots.receipt.calendars[3].status = "error"
    /\ ots.receipt.calendars[3].error = "timeout"
    /\ ots.receipt.level = 3
    /\ witnesses[RootA] = << ots.receipt >>

\* the texts and byte strings a calendar must not see: every original hash
\* and every nonce, as hex text and as bytes
SecretTexts ==
    { h.s : h \in WitnessRoots } \cup { BytesFromHex(h.s) : h \in WitnessRoots }
    \cup Nonces \cup { HexFromBytes(n) : n \in Nonces }

\* C20: every request sent to a calendar by submitToOTS or checkOTSUpgrade
\* carries the blinded digest and nothing else of the submission: the POST
\* body is the digest of nonce and hash bytes, the GET path ends with the
\* digest's hex text, and neither an original hash nor a nonce occurs in the
\* path or the body
C20_RequestsCarryOnlyDigest ==
    \A m \in sent :
        /\ \A secret \in SecretTexts :
              Len(secret) > 0 => ~IsSubstring(secret, m.path \o m.body)
        /\ \E n \in Nonces, h \in WitnessRoots :
              LET digest == Sha256Bytes(n \o BytesFromHex(h.s))
              IN  \/ m.method = "POST" /\ m.body = digest
                  \/ /\ m.method = "GET" /\ m.body = <<>>
                     /\ m.path = Lit(<<"/", "t", "i", "m", "e", "s", "t", "a", "m", "p", "/">>)
                                 \o HexFromBytes(digest)

\* a submission of RootA and an upgrade query for it have both sent requests
C20_Witness ==
    /\ \E m \in sent : m.method = "POST" /\ m.body = otsDigest(NonceOne, RootA)
    /\ \E m \in sent : m.method = "GET"
    /\ \E i \in 1..Len(witnesses[RootA]) : witnesses[RootA][i].original_hash = RootA

(* ------------------------------------------------------------------ *)
(* Submissions and upgrade checks of one root                           *)
(* ------------------------------------------------------------------ *)
NextUpgrade ==
    \/ \E nonce \in Nonces, outcomes \in SubmitCases : submitToOTS(RootA, nonce, outcomes)
    \/ \E root \in {RootA, RootB}, outcomes \in UpgradeCases :
          checkOTSUpgradeCall(root, outcomes)

SpecUpgrade == Init /\ [][NextUpgrade]_vars

(* ------------------------------------------------------------------ *)
(* C21..C23: checkOTSUpgrade                                            *)
(* ------------------------------------------------------------------ *)

\* the position of the last ots_pending receipt of a list, 0 when there is none
RECURSIVE lastPending(_)
lastPending(list) ==
    IF list = <<>> THEN 0
    ELSE IF list[Len(list)].type = "ots_pending" THEN Len(list)
    ELSE lastPending(SubSeq(list, 1, Len(list) - 1))

\* C21: checkOTSUpgrade(root) returns status no_pending when no ots_pending
\* receipt is stored for the root, and otherwise sends its queries with the
\* digest and to the submitted calendars of the most recently saved
\* ots_pending receipt of the root.
C21_QueriesMostRecentPending ==
    [][\A root \in {RootA, RootB} : \A outcomes \in UpgradeCases :
          checkOTSUpgradeCall(root, outcomes) =>
              LET list == loadWitnesses(witnesses, root)
                  p == lastPending(list)
              IN  IF p = 0 THEN ures'.status = "no_pending"
                  ELSE /\ ures'.status = "checked"
                       /\ ures'.requests =
                              upgradeRequestsFrom(list[p].calendars, list[p].digest, 1)]_vars

\* the positions of the calendar entries of a receipt with status submitted
submittedPositions(receipt) ==
    { k \in 1..Len(receipt.calendars) : receipt.calendars[k].status = "submitted" }

\* C22: checkOTSUpgrade appends an ots_confirmed level-4 receipt and reports
\* new_level = 4 exactly when a queried calendar answered 2xx with a body
\* holding the 0x05 marker; otherwise the receipts of the root are unchanged
\* and new_level is absent. Only entries with status submitted are queried,
\* and upgraded + pending is their number.
C22_ConfirmedIffBitcoinAnswer ==
    [][\A root \in {RootA, RootB} : \A outcomes \in UpgradeCases :
          checkOTSUpgradeCall(root, outcomes) =>
              LET list == loadWitnesses(witnesses, root)
                  after == loadWitnesses(witnesses', root)
                  p == firstPending(list)
                  queried == IF p = 0 THEN {} ELSE submittedPositions(list[p])
                  hit == \E k \in queried : outcomes[k] = "bitcoin"
              IN  /\ hit <=> ures'.new_level = 4
                  /\ hit => /\ Len(after) = Len(list) + 1
                            /\ SubSeq(after, 1, Len(list)) = list
                            /\ after[Len(after)].type = "ots_confirmed"
                            /\ after[Len(after)].level = 4
                  /\ ~hit => /\ witnesses' = witnesses
                             /\ ures'.new_level = 0
                  /\ p # 0 =>
                        /\ ures'.upgraded + ures'.pending = Cardinality(queried)
                        /\ Len(ures'.requests) = Cardinality(queried)
                        /\ { ures'.requests[i].calendar : i \in 1..Len(ures'.requests) }
                              = { list[p].calendars[k].calendar : k \in queried }
                        /\ ures'.upgraded =
                              Cardinality({ k \in queried : outcomes[k] = "bitcoin" })]_vars

\* a call that queried two of three calendars: one confirmed, one still pending
C22_Witness ==
    /\ ures.status = "checked"
    /\ ures.new_level = 4
    /\ ures.upgraded = 1
    /\ ures.pending = 1
    /\ Len(ures.requests) = 2
    /\ \E i \in 1..Len(witnesses[RootA]) : witnesses[RootA][i].type = "ots_confirmed"

\* an ots_confirmed receipt is stored for the root
hasConfirmed(root) ==
    \E i \in 1..Len(loadWitnesses(witnesses, root)) :
        loadWitnesses(witnesses, root)[i].type = "ots_confirmed"

\* C23: once an ots_confirmed receipt is stored for a root, every further
\* checkOTSUpgrade(root) call leaves the stored receipt list of that root
\* unchanged.
C23_ConfirmedIsTerminal ==
    [][\A root \in {RootA, RootB} : \A outcomes \in UpgradeCases :
          (hasConfirmed(root) /\ checkOTSUpgradeCall(root, outcomes)) =>
              loadWitnesses(witnesses', root) = loadWitnesses(witnesses, root)]_vars

(* ------------------------------------------------------------------ *)
(* One Store over the files a machine may hold                          *)
(* ------------------------------------------------------------------ *)
\* chain.json of a machine: none, unparseable bytes, a JSON value that is no
\* store data, or the file of a store with one atom
StartFiles ==
    { NoFile, GarbageFile, EmptyFile, jsonFile(ForeignData),
      jsonFile(appendAtom(_empty, ForeignAtom).data) }

InitApi ==
    /\ ChainInit /\ VerifyInit /\ TamperInit /\ MerkleIdle
    /\ StoreInit /\ DivergeInit /\ WitnessInit /\ UpgradeInit /\ FileIdle /\ ToolIdle /\ LastIdle
    /\ chainFile \in StartFiles
    /\ actionsFile \in { [kind |-> "absent", data |-> {}], [kind |-> "garbage", data |-> {}] }
    /\ store = NoStore
    /\ sret = NoReturn

NextApi ==
    \/ newStore
    \/ exitProcess
    \/ \E atom \in AppendInputs(store.data) : appendAtomCall(atom)
    \/ \E t1 \in ApiTimes, t2 \in ApiTimes : appendBlockCall(t1, t2)
    \/ \E text \in ActionTexts, now \in ApiTimes : saveActionCall(text, now)
    \/ \E given \in ImportInputs : importChainCall(given)
    \/ \E now \in ApiTimes : exportAllCall(now)

SpecApi == InitApi /\ [][NextApi]_vars

\* C24: Store.appendAtom returns the number of atoms held before the call;
\* afterwards atomCount is one greater, getAtom(returned index) is the
\* appended atom without _raw, lastProof() is its proof, every atom and block
\* stored before is unchanged, and lastProof() is "genesis" only when the
\* store holds no atom.
C24_AppendAtomFrame ==
    /\ [](store.open /\ store.data.valid =>
            (lastProof(plainAtoms(store.data)) = Genesis <=> Len(store.data.atoms) = 0))
    /\ [][\A atom \in AppendInputs(store.data) :
             (store.data.valid /\ appendAtomCall(atom)) =>
                 /\ ~sret'.threw
                 /\ sret'.index = Len(store.data.atoms)
                 /\ Len(store'.data.atoms) = Len(store.data.atoms) + 1
                 /\ getAtom(store'.data, sret'.index) = [atom |-> atom.atom, raw |-> NoRaw]
                 /\ lastProof(plainAtoms(store'.data)) = atom.atom.proof
                 /\ SubSeq(store'.data.atoms, 1, Len(store.data.atoms)) = store.data.atoms
                 /\ store'.data.blocks = store.data.blocks
                 /\ chainFile' = jsonFile(store'.data)]_vars

\* an atom appended to a store that held one atom and one block
C24_Witness ==
    /\ sret.op = "appendAtom"
    /\ sret.index = 1
    /\ Len(store.data.atoms) = 2
    /\ Len(store.data.blocks) = 1
    /\ store.data.atoms[2].atom.prev = JArr(<< store.data.atoms[1].atom.proof >>)

\* C25: the value exportAll returns holds no local-only field: no atom of it
\* has _raw and no block of it has layers, whatever appendAtom, saveAction,
\* appendBlock and importChain calls came before; the sidecar is no part of it.
C25_ExportHasNoLocalFields ==
    sret.op = "exportAll" =>
        /\ \A i \in 1..Len(sret.atoms) : ~sret.atoms[i].raw.present
        /\ \A i \in 1..Len(sret.blocks) : ~sret.blocks[i].layers.present

\* C26: a Store constructed over a chain file or a sidecar that JSON.parse
\* rejects does not throw and is empty: atomCount = 0, no blocks, lastProof()
\* = "genesis"; the next appendAtom returns index 0.
C26_CorruptFileGivesEmptyStore ==
    /\ [][(chainFile.kind \in { "garbage", "empty", "partial" } /\ newStore) =>
             /\ ~sret'.threw
             /\ store'.open
             /\ Len(store'.data.atoms) = 0
             /\ store'.data.blocks = <<>>
             /\ lastProof(plainAtoms(store'.data)) = Genesis]_vars
    /\ [][(actionsFile.kind = "garbage" /\ newStore) =>
             /\ ~sret'.threw
             /\ store'.open
             /\ store'.actions = {}]_vars
    /\ [][\A atom \in AppendInputs(store.data) :
             (chainFile.kind \in { "garbage", "empty", "partial" } /\ appendAtomCall(atom)) =>
                 /\ ~sret'.threw
                 /\ sret'.index = 0
                 /\ chainFile' = jsonFile(store'.data)]_vars

\* a Store just constructed over a chain file and a sidecar of garbage
C26_Witness ==
    /\ chainFile.kind = "garbage"
    /\ actionsFile.kind = "garbage"
    /\ sret.op = "new"
    /\ store.open

(* ------------------------------------------------------------------ *)
(* A process writing chain.json and a witness file while another reads   *)
(* ------------------------------------------------------------------ *)
NextFile ==
    \/ wpos = NoWrite /\ newStore
    \/ \E atom \in AppendInputs(store.data) : appendAtomOpen(atom)
    \/ \E t1 \in ApiTimes, t2 \in ApiTimes : appendBlockOpen(t1, t2)
    \/ \E witness \in GivenReceipts : saveWitnessOpen(witness)
    \/ writePart
    \/ writeDone
    \/ \E file \in { "chain", "witness" } : readFile(file)

SpecFile == Init /\ [][NextFile]_vars

\* C27: a process that reads chain.json or a witness file while appendAtom,
\* appendBlock or saveWitness writes it finds the complete content of before
\* the write or of after it (or no file before the first write), never a
\* file without bytes or with a part of the text.
C27_ReadersSeeCompleteFiles == seen.kind \in { "none", "absent", "json" }

(* ------------------------------------------------------------------ *)
(* Runs of the command line on one machine                              *)
(* ------------------------------------------------------------------ *)
NextCli ==
    \/ \E action \in LogArguments, now \in ApiTimes : runLog(action, now)
    \/ \E i \in 1..MaxCliAtoms : editChainFile(i)
    \/ runVerify
    \/ \E t1 \in ApiTimes, t2 \in ApiTimes : runSeal(t1, t2)
    \/ \E subArgs \in WitnessArguments, now \in ApiTimes : runWitness(subArgs, now)

SpecCli == Init /\ [][NextCli]_vars

\* C28: the process of a command exits with code 0 when the command
\* succeeds, and with a non-zero code on a usage error (log without an
\* action, witness --bilateral without a counterparty id) and when verify
\* finds the stored chain broken.
C28_ExitCodes ==
    /\ cli.usage => cli.exit # 0
    /\ (cli.cmd = "verify" /\ cli.broken >= 0) => cli.exit # 0
    /\ (cli.cmd # "none" /\ ~cli.usage /\ cli.broken < 0 /\ ~cli.threw) => cli.exit = 0

(* ------------------------------------------------------------------ *)
(* Calls of the MCP tools on the store of the server                    *)
(* ------------------------------------------------------------------ *)
NextMcp ==
    \/ \E now \in ApiTimes : tool_forge_scan(now)
    \/ \E now \in ApiTimes : tool_forge_log(now)
    \/ \E now \in ApiTimes : tool_forge_verify(now)
    \/ \E now \in ApiTimes : tool_forge_seal(now, now, now)
    \/ tool_forge_status
    \/ \E atom_index \in 0..MaxMcpAtoms, now \in ApiTimes : tool_forge_prove(atom_index, now)
    \/ tool_forge_history
    \/ \E now \in ApiTimes : tool_forge_export(now)
    \/ \E upgrade \in BOOLEAN, outcomes \in SubmitCases, answers \in UpgradeCases,
          now \in ApiTimes : tool_forge_anchor(upgrade, NonceOne, outcomes, answers, now)
    \/ \E bilateral_party \in { JStr(<<>>), Party }, now \in ApiTimes :
          tool_forge_witness(bilateral_party, now)

SpecMcp == Init /\ [][NextMcp]_vars

\* C29: every call of an MCP tool, on any store and on any branch of its
\* handler, appends at least one TrustAtom to the stored chain.
C29_EveryToolCallRecords == mcp.tool # "none" => mcp.recorded >= 1

(* ------------------------------------------------------------------ *)
(* The atom-recording operations: a TrustChain and the store             *)
(* ------------------------------------------------------------------ *)
NextRecord ==
    \/ \E op \in Operations, now \in Clock : record(op, now)
    \/ \E now \in Clock : cmdLog(now)
    \/ \E now \in Clock : forge_log(now)

SpecRecord == Init /\ [][NextRecord]_vars

\* every atom of the list has one prev, the proof of the atom before it
\* (genesis for the first), and its proof is hashMany of its fields and prev
linkedByOne(as) ==
    \A i \in 1..Len(as) :
        /\ as[i].prev = JArr(<< IF i = 1 THEN Genesis ELSE as[i - 1].proof >>)
        /\ as[i].proof = hashMany(<< as[i].who, as[i].from, as[i].action, as[i].to,
                                     as[i].when >> \o as[i].prev.a)

\* C30: after any sequence of TrustChain.record, cmdLog and recordAtom, the
\* atom at index 0 has prev = ["genesis"], every atom at index i > 0 has prev
\* of length 1 equal to [atoms[i-1].proof], and each atom's proof is
\* hashMany(who, from, action, to, when, ...prev).
C30_LinearPrevLinkage == linkedByOne(atoms) /\ linkedByOne(storeAtoms)

\* a chain of three recorded atoms and a store of three logged atoms
C30_Witness ==
    /\ Len(atoms) = 3 /\ atoms[3].prev.a = << atoms[2].proof >>
    /\ Len(storeAtoms) = 3 /\ storeAtoms[3].prev.a = << storeAtoms[2].proof >>

(* ------------------------------------------------------------------ *)
(* hash applied to pairs of objects                                     *)
(* ------------------------------------------------------------------ *)
InitHash ==
    /\ ChainInit /\ VerifyInit /\ TamperInit /\ MerkleIdle
    /\ MiddleIdle /\ MultiIdle /\ SignedIdle
    /\ hobj \in ObjectInputs \X ObjectInputs
    /\ hres = <<>>

NextHash == hashCall

SpecHash == InitHash /\ [][NextHash]_vars

\* C31: hash(o) is the SHA-256 of the JSON text of o with sorted names that
\* keeps every name and value of o at every depth; so two objects get the
\* same digest exactly when they differ in the order of names only.
C31_HashKeepsEveryDepth ==
    hres # <<>> =>
        /\ \A i \in 1..2 : hres[i] = JStr(Sha256Hex(StringifyEveryDepth(hobj[i])))
        /\ (hres[1] = hres[2])
              <=> (StringifyEveryDepth(hobj[1]) = StringifyEveryDepth(hobj[2]))

\* the stored blocks (1-based positions) whose atom_range holds the index
persistedCover(index) == coveringBlocks(storeBlocks, index)

\* C32: forge_prove answers with a proof for atom i only if i lies in the
\* atom_range of a stored block, and then with the root of that stored block;
\* for an existing atom past the last stored block it answers that the atom is
\* in no sealed block.
C32_ProveUsesPersistedBlock ==
    mcp.tool = "forge_prove" =>
        /\ mcp.answer = "proof" =>
              \E k \in persistedCover(mcp.atom_index) :
                  storeBlocks[k].root = mcp.merkle_root
        /\ (/\ mcp.answer \notin { "no_atom", "no_blocks" }
            /\ persistedCover(mcp.atom_index) = {}) => mcp.answer = "not_sealed"

\* C33: on the stored atoms, forge verify and the forge_verify tool (the same
\* loop) report the chain broken at index i exactly when verifyChain returns
\* broken_at = i, and valid exactly when verifyChain returns valid.
C33_CommandsAgreeWithVerifyChain ==
    Len(storeAtoms) > 0 =>
        /\ cmdVerifyFrom(storeAtoms, 1).broken = verifyChain(storeAtoms).broken_at
        /\ (cmdVerifyFrom(storeAtoms, 1).broken < 0) <=> verifyChain(storeAtoms).valid

\* every atom index lies in the atom_range of some block
everyAtomCovered == \A i \in 0..(Len(atoms) - 1) : coveringBlocks(blocks, i) # {}

\* C34: seal, called when every atom is covered by a block or the chain has no
\* atoms, leaves atoms and blocks unchanged; and every seal leaves a chain in
\* which every atom is covered, so a second seal right after it adds nothing.
C34_SealWithNothingNewIsNoOp ==
    [][\A t1 \in Clock, t2 \in Clock :
          seal(t1, t2) =>
              /\ everyAtomCovered => (atoms' = atoms /\ blocks' = blocks)
              /\ Len(blocks') <= Len(blocks) + 1
              /\ \A i \in 0..(Len(atoms') - 1) : coveringBlocks(blocks', i) # {}]_vars

\* a sealed chain with every atom covered: the state a repeated seal starts in
C34_Witness == Len(atoms) > 0 /\ Len(blocks) > 0 /\ everyAtomCovered

\* C35: buildMerkleTree ends on every leaf list; for n >= 2 leaves layer 0 is
\* the leaves, each next layer has ceil(half) of the nodes of the one below,
\* the last layer has one node, which is the root, and getMerkleProof returns
\* layers.length - 1 steps; for one leaf the root is the leaf with one layer;
\* for no leaf the root is hash("empty") with one empty layer.
C35_TreeShape ==
    tree # NoTree =>
        /\ Len(leaves) = 0 =>
              /\ tree.root = hash(JStr(Lit(<<"e", "m", "p", "t", "y">>)))
              /\ tree.layers = << <<>> >>
        /\ Len(leaves) = 1 => (tree.root = leaves[1] /\ tree.layers = << leaves >>)
        /\ Len(leaves) >= 2 =>
              /\ tree.layers[1] = leaves
              /\ \A k \in 1..(Len(tree.layers) - 1) :
                    Len(tree.layers[k + 1]) = (Len(tree.layers[k]) + 1) \div 2
              /\ Len(tree.layers[Len(tree.layers)]) = 1
              /\ tree.root = tree.layers[Len(tree.layers)][1]
        /\ mproof # NoProof => Len(mproof.steps) = Len(tree.layers) - 1

\* a proof taken in a tree of three layers or more
C35_Witness == Len(leaves) >= 3 /\ Len(tree.layers) >= 3 /\ mproof # NoProof

\* C36: verifyChain puts no condition on the prev of the first atom nor on what
\* follows the last: every contiguous slice of an accepted sequence (the empty
\* slice, prefixes, suffixes that do not start at genesis) is accepted too.
C36_SlicesOfValidChainsAreValid ==
    (vres # NotRun /\ vres.valid) =>
        \A i \in 1..(Len(vatoms) + 1) : \A j \in (i - 1)..Len(vatoms) :
            verifyChain(SubSeq(vatoms, i, j)) = ChainValid

\* an accepted sequence of three atoms: its suffixes start at a prev other
\* than "genesis"
C36_Witness ==
    /\ vres # NotRun /\ vres.valid
    /\ Len(vatoms) >= 3
    /\ ~PrevIncludes(vatoms[2].prev, Genesis)

(* ------------------------------------------------------------------ *)
(* Two Store objects on one path, their calls one after the other       *)
(* ------------------------------------------------------------------ *)
NextMulti ==
    \/ newStore
    \/ exitProcess
    \/ \E atom \in AppendInputs(store.data) : appendAtomCall(atom)
    \/ \E t1 \in ApiTimes, t2 \in ApiTimes : appendBlockCall(t1, t2)
    \/ newStore2
    \/ exitProcess2
    \/ \E atom \in AppendInputs(store2.data) : appendAtomCall2(atom)

SpecMulti == InitApi /\ [][NextMulti]_vars

\* a is the head of b
IsHead(a, b) == Len(a) <= Len(b) /\ SubSeq(b, 1, Len(a)) = a

\* C37: chain.json is append-only across the Store objects opened on it: every
\* atom and block the file holds is still there, at its place, after any later
\* appendAtom or appendBlock through either object.
C37_FileIsAppendOnly ==
    [][(chainFile.kind = "json" /\ chainFile.data.valid) =>
          /\ chainFile'.kind = "json"
          /\ IsHead(chainFile.data.atoms, chainFile'.data.atoms)
          /\ IsHead(chainFile.data.blocks, chainFile'.data.blocks)]_vars

(* ------------------------------------------------------------------ *)
(* The signed verifyChain on given atom sequences                       *)
(* ------------------------------------------------------------------ *)
InitSigned ==
    /\ ChainInit /\ VerifyInit /\ TamperInit /\ MerkleIdle
    /\ MiddleIdle /\ HashIdle /\ MultiIdle
    /\ satoms = <<>>
    /\ sreq \in BOOLEAN
    /\ skeys \in Machines
    /\ sres = SignedNotRun

NextSigned ==
    \/ \E a \in SignedInputs(satoms) : pushSignedAtom(a)
    \/ runVerifySigned

SpecSigned == InitSigned /\ [][NextSigned]_vars

\* C38: with requireSignature = false the signed verifyChain returns the
\* valid, broken_at and reason of the unsigned verifyChain on the same atoms,
\* whatever signature and signer they carry.
C38_UnrequiredSignaturesChangeNothing ==
    (sres # SignedNotRun /\ ~sreq) =>
        /\ sres.thrown = verifyChain(satoms).thrown
        /\ sres.valid = verifyChain(satoms).valid
        /\ sres.broken_at = verifyChain(satoms).broken_at
        /\ sres.reason = verifyChain(satoms).reason

\* the first check atom i (1-based) fails, in the order proof, link, time,
\* signature; "none" when it passes all four
firstFailure(i) ==
    IF ~verifyAtom(satoms[i]) THEN "proof_mismatch"
    ELSE IF i > 1 /\ ~PrevIncludes(satoms[i].prev, satoms[i - 1].proof) THEN "chain_break"
    ELSE IF i > 1 /\ Less(satoms[i].when, satoms[i - 1].when) THEN "time_reversal"
    ELSE IF Falsy(satoms[i].signature) THEN "unsigned"
    ELSE IF ~verifyAtomSignature(satoms[i], skeys).valid
    THEN SignatureReason(verifyAtomSignature(satoms[i], skeys).reason)
    ELSE "none"

\* C39: with requireSignature = true the signed verifyChain returns; it returns
\* valid = true only if every atom carries a signature that verifyAtomSignature
\* accepts; otherwise broken_at is the least index that fails a check and
\* reason is the first check that index fails, in the order proof_mismatch,
\* chain_break, time_reversal, signature ("unsigned" without a signature,
\* "signature_<cause>" for a rejected one).
C39_RequiredSignatures ==
    (sres # SignedNotRun /\ sreq) =>
        /\ ~sres.thrown
        /\ sres.valid =>
              \A i \in 1..Len(satoms) :
                  /\ ~Falsy(satoms[i].signature)
                  /\ verifyAtomSignature(satoms[i], skeys).valid
        /\ ~sres.valid =>
              /\ sres.broken_at \in 0..(Len(satoms) - 1)
              /\ \A i \in 1..sres.broken_at : firstFailure(i) = "none"
              /\ firstFailure(sres.broken_at + 1) # "none"
              /\ sres.reason = firstFailure(sres.broken_at + 1)
====
